---- MODULE Spec2Model ----
(***************************************************************************)
(* FastTransfer / ICS routines of the EMSMDB provider (oxcfxics.c).        *)
(*                                                                         *)
(* The model keeps one folder handle, at most one FtContext and at most    *)
(* one SyncContext.  A stream is a sequence of tokens, each with its size  *)
(* in bytes; offsets, cut-marks and chunk boundaries are byte offsets.     *)
(* A chunk returned by GetBuffer is a view into the stream and is recorded *)
(* as (start, length).  64-bit identifiers are kept as their three fields  *)
(* (replid: low 16 bits, lo: middle 32 bits, hi: top 16 bits), a 48-bit    *)
(* counter as <<hi, lo>>.                                                   *)
(***************************************************************************)
EXTENDS Integers, Sequences, FiniteSets, TLC

VARIABLES store, handles, ftcontext, synccontext, reply, chunks, walk, aborted, sessions

vars == <<store, handles, ftcontext, synccontext, reply, chunks, walk, aborted, sessions>>

(***************************************************************************)
(* Bounds of the model.                                                    *)
(***************************************************************************)
\* GetBuffer calls made on one context
MaxCalls == 4
\* scalars held by the scratch buffer of a state upload
MaxScratch == 7
\* state uploads begun on one SyncContext
MaxUploads == 2
\* import RPCs served by a store
MaxImports == 2
\* sessions that reserve ids side by side, and reservations a store serves
MaxSessions == 2
MaxReservations == 3

(***************************************************************************)
(* Program constants.                                                      *)
(***************************************************************************)
\* #define oc_version_time 0x4dbb2dbe
oc_version_time == 1304112574
\* buffer_size == 0xBABE selects MaximumBufferSize
BABE == 47806
\* the uint16_t locals of GetBuffer hold values modulo 2^16
UINT16_MOD == 65536
\* 0xffffffff, the last entry of a cut-mark array, as a 32-bit pattern
CUTMARK_END == -1
\* a source key, a change key: 16 bytes of GUID and 6 bytes of counter
XID_SIZE == 22

\* commands of the serialized idset (libmapi, not part of these sources)
GLOBSET_END == 0
GLOBSET_RANGE == 82

(***************************************************************************)
(* Small helpers.                                                          *)
(***************************************************************************)
Min(a, b) == IF a < b THEN a ELSE b

RECURSIVE SeqSum(_)
SeqSum(s) == IF s = <<>> THEN 0 ELSE Head(s) + SeqSum(Tail(s))

RECURSIVE Flatten(_)
Flatten(ss) == IF ss = <<>> THEN <<>> ELSE Head(ss) \o Flatten(Tail(ss))

SeqRange(s) == { s[i] : i \in 1..Len(s) }

\* a data pointer returned by the store: NULL, or the value it points to
Ptr(v) == [null |-> FALSE, v |-> v]
NullPtr == [null |-> TRUE, v |-> <<>>]

\* a property tag: its 16-bit id (by name), its type and the MV_FLAG bit
Tag(id, type) == [id |-> id, type |-> type, mv |-> FALSE]
MvTag(id, type) == [id |-> id, type |-> type, mv |-> TRUE]

\* property ids above 0x8000 are named properties
NamedPropIds == {"NAMED_LID", "NAMED_STRING", "NAMED_UNKNOWN"}

PR_MID == Tag("PR_MID", "PT_I8")
PR_FID == Tag("PR_FID", "PT_I8")
PR_PARENT_FID == Tag("PR_PARENT_FID", "PT_I8")
PR_ASSOCIATED == Tag("PR_ASSOCIATED", "PT_BOOLEAN")
PR_MESSAGE_SIZE == Tag("PR_MESSAGE_SIZE", "PT_LONG")
PR_CHANGE_NUM == Tag("PR_CHANGE_NUM", "PT_I8")
PR_CHANGE_KEY == Tag("PR_CHANGE_KEY", "PT_BINARY")
PR_SOURCE_KEY == Tag("PR_SOURCE_KEY", "PT_BINARY")
PR_PARENT_SOURCE_KEY == Tag("PR_PARENT_SOURCE_KEY", "PT_BINARY")
PR_PREDECESSOR_CHANGE_LIST == Tag("PR_PREDECESSOR_CHANGE_LIST", "PT_BINARY")
PR_LAST_MODIFICATION_TIME == Tag("PR_LAST_MODIFICATION_TIME", "PT_SYSTIME")
PR_DISPLAY_NAME_UNICODE == Tag("PR_DISPLAY_NAME", "PT_UNICODE")
PR_BODY_UNICODE == Tag("PR_BODY", "PT_UNICODE")
PR_BODY_HTML == Tag("PR_BODY_HTML", "PT_BINARY")
PR_ATTACH_NUM == Tag("PR_ATTACH_NUM", "PT_LONG")

(***************************************************************************)
(* The ndr push buffers of a production: the stream, its offset, the       *)
(* cut-marks sidecar, and the two raw id accumulators of oxcfxics_sync_data.*)
(***************************************************************************)
NewSyncData == [ndr |-> <<>>, offset |-> 0, cutmarks |-> <<>>, eid_set |-> <<>>, cnset_seen |-> <<>>, aborted |-> FALSE]

\* one value pushed on the stream: what it is, its content, its size in bytes
Token(k, v, n) == [k |-> k, v |-> v, n |-> n]

Push(sd, tok) == [sd EXCEPT !.ndr = Append(@, tok), !.offset = @ + tok.n]

\* ndr_push_uint32(ndr, NDR_SCALARS, <marker or tag>)
PushU32(sd, name) == Push(sd, Token(name, <<>>, 4))

\* ndr_push_uint32(cutmarks_ndr, NDR_SCALARS, ndr->offset)
PushCutmark(sd) == [sd EXCEPT !.cutmarks = Append(@, sd.offset)]

Abort(sd) == [sd EXCEPT !.aborted = TRUE]

SimpleTypes == {"PT_I2", "PT_LONG", "PT_ERROR", "PT_OBJECT", "PT_DOUBLE", "PT_I8", "PT_BOOLEAN", "PT_STRING8", "PT_UNICODE", "PT_SVREID", "PT_BINARY", "PT_CLSID", "PT_SYSTIME"}

\* the bytes oxcfxics_ndr_push_simple_data writes for a value of data_type.
\* A string value is its sequence of characters, a binary value is
\* <<cb, content...>>, any other value is <<number>>.
SimpleDataSize(data_type, v) ==
    CASE data_type = "PT_I2" -> 2
      [] data_type \in {"PT_LONG", "PT_ERROR", "PT_OBJECT"} -> 4
      [] data_type \in {"PT_DOUBLE", "PT_I8", "PT_SYSTIME"} -> 8
      [] data_type = "PT_BOOLEAN" -> 2
      [] data_type = "PT_STRING8" -> 4 + Len(v) + 1
      [] data_type = "PT_UNICODE" -> 4 + Len(v) * 2 + 2
      [] data_type \in {"PT_SVREID", "PT_BINARY"} -> 4 + v[1]
      [] data_type = "PT_CLSID" -> 16

SimpleDataValue(data_type, v) ==
    IF data_type = "PT_BOOLEAN" THEN (IF v[1] # 0 THEN <<1>> ELSE <<0>>) ELSE v

\* static void oxcfxics_ndr_push_simple_data(ndr, data_type, value):
\* an unsupported type aborts; a NULL value pointer is dereferenced.
oxcfxics_ndr_push_simple_data(sd, data_type, value) ==
    IF data_type \notin SimpleTypes \/ value.null
    THEN Abort(sd)
    ELSE Push(sd, Token(data_type, SimpleDataValue(data_type, value.v), SimpleDataSize(data_type, value.v)))

RECURSIVE PushArray(_, _, _, _)
PushArray(sd, prop_type, values, j) ==
    IF j > Len(values) \/ sd.aborted
    THEN sd
    ELSE PushArray(oxcfxics_ndr_push_simple_data(sd, prop_type, Ptr(values[j])), prop_type, values, j + 1)

\* the name of a named property: mapistore_namedprops_get_nameid
NameidSize(nameid) == IF nameid.ulKind = "MNID_ID" THEN 1 + 4 ELSE 1 + Len(nameid.Name) * 2 + 2

\* the body of the loop of oxcfxics_ndr_push_properties for one property
PushProperty(sd, nameids, property, data, retval) ==
    IF retval # "MAPI_E_SUCCESS"
    THEN sd
    ELSE LET marked == PushCutmark(sd)
             named == property.id \in NamedPropIds
         IN  IF named /\ property.id \notin DOMAIN nameids
             THEN marked
             ELSE LET tagged == IF named
                                THEN Push(Push(PushU32(marked, property.id), Token("GUID", <<>>, 16)),
                                          Token(nameids[property.id].ulKind, nameids[property.id].Name, NameidSize(nameids[property.id])))
                                ELSE PushU32(marked, property.id)
                  IN  IF property.mv
                      THEN IF property.type \in {"PT_BINARY", "PT_UNICODE"} /\ ~data.null
                           THEN PushArray(Push(tagged, Token("cValues", <<Len(data.v)>>, 4)), property.type, data.v, 1)
                           ELSE Abort(tagged)
                      ELSE oxcfxics_ndr_push_simple_data(tagged, property.type, data)

\* static void oxcfxics_ndr_push_properties(ndr, cutmarks_ndr, nprops_ctx,
\*                                          properties, data_pointers, retvals)
RECURSIVE oxcfxics_ndr_push_properties(_, _, _, _, _, _)
oxcfxics_ndr_push_properties(sd, nameids, properties, data_pointers, retvals, i) ==
    IF i > Len(properties) \/ sd.aborted
    THEN sd
    ELSE oxcfxics_ndr_push_properties(PushProperty(sd, nameids, properties[i], data_pointers[i], retvals[i]),
                                      nameids, properties, data_pointers, retvals, i + 1)

(***************************************************************************)
(* Identifier sets.  The idset library (libmapi/idset.c) is not part of    *)
(* these sources; the operators below follow the written description of    *)
(* the engine.  An idset is NULL or a set of (guid, hi, lo) points with    *)
(* the "single" flag; ranges appear when it is serialized.  The counters   *)
(* of the model stay far below 2^32, so a range never crosses hi.          *)
(***************************************************************************)
NullIdset == [null |-> TRUE, single |-> FALSE, ids |-> {}]

IdLess(a, b) == a[1] < b[1] \/ (a[1] = b[1] /\ a[2] < b[2])

IdsOf(ids, guid) == { <<x[2], x[3]>> : x \in { y \in ids : y[1] = guid } }

MinId(S) == CHOOSE a \in S : \A b \in S : a = b \/ IdLess(a, b)

RECURSIVE RangeEnd(_, _)
RangeEnd(S, a) == IF <<a[1], a[2] + 1>> \in S THEN RangeEnd(S, <<a[1], a[2] + 1>>) ELSE a

\* the sorted, fused ranges <<lo, hi>> of a set of counters
RECURSIVE Ranges(_)
Ranges(S) ==
    IF S = {}
    THEN <<>>
    ELSE LET lo == MinId(S)
             hi == RangeEnd(S, lo)
         IN  <<<<lo, hi>>>> \o Ranges({ x \in S : IdLess(hi, x) })

RECURSIVE SortedGuids(_)
SortedGuids(G) ==
    IF G = {}
    THEN <<>>
    ELSE LET g == CHOOSE x \in G : \A y \in G : x <= y
         IN  <<g>> \o SortedGuids(G \ {g})

\* the points of the last range of every replica
FinalRanges(ids) ==
    UNION { LET rs == Ranges(IdsOf(ids, g))
                last == rs[Len(rs)]
            IN  { x \in ids : x[1] = g /\ ~IdLess(<<x[2], x[3]>>, last[1]) }
            : g \in { y[1] : y \in ids } }

\* RAWIDSET_make(mem_ctx, single) is the empty sequence of points;
\* RAWIDSET_push_glob appends one point
RAWIDSET_push_glob(raw, guid, id) == Append(raw, <<guid, id[1], id[2]>>)

RAWIDSET_convert_to_idset(raw, single) == [null |-> FALSE, single |-> single, ids |-> SeqRange(raw)]

IDSET_includes_id(idset, guid, id) == ~idset.null /\ <<guid, id[1], id[2]>> \in idset.ids

IDSET_merge_idsets(a, b) ==
    IF a.null
    THEN b
    ELSE IF b.null
         THEN a
         ELSE LET single == a.single \/ b.single
                  all == a.ids \cup b.ids
              IN  [null |-> FALSE, single |-> single, ids |-> IF single THEN FinalRanges(all) ELSE all]

SerializeRanges(rs) == Flatten([i \in 1..Len(rs) |-> <<GLOBSET_RANGE, rs[i][1][1], rs[i][1][2], rs[i][2][1], rs[i][2][2]>>])

\* the wire form: for every replica its guid, its ranges, GLOBSET_END
IDSET_serialize(idset) ==
    IF idset.null
    THEN <<>>
    ELSE LET gs == SortedGuids({ x[1] : x \in idset.ids })
         IN  Flatten([i \in 1..Len(gs) |-> <<gs[i]>> \o SerializeRanges(Ranges(IdsOf(idset.ids, gs[i]))) \o <<GLOBSET_END>>])

RECURSIVE ParseBlocks(_, _, _)
RECURSIVE ParseRanges(_, _, _, _, _)
ParseBlocks(b, i, acc) ==
    IF i > Len(b)
    THEN [ok |-> TRUE, ids |-> acc]
    ELSE ParseRanges(b, i + 1, b[i], acc, <<-1, -1>>)

ParseRanges(b, i, guid, acc, prev) ==
    IF i > Len(b)
    THEN [ok |-> FALSE, ids |-> {}]
    ELSE IF b[i] = GLOBSET_END
         THEN ParseBlocks(b, i + 1, acc)
         ELSE IF b[i] = GLOBSET_RANGE /\ i + 4 <= Len(b)
              THEN LET lo == <<b[i + 1], b[i + 2]>>
                       hi == <<b[i + 3], b[i + 4]>>
                   IN  IF lo[1] = hi[1] /\ lo[2] <= hi[2] /\ IdLess(prev, lo)
                       THEN ParseRanges(b, i + 5, guid, acc \cup { <<guid, lo[1], l>> : l \in lo[2]..hi[2] }, hi)
                       ELSE [ok |-> FALSE, ids |-> {}]
              ELSE [ok |-> FALSE, ids |-> {}]

\* NULL on truncated or non-monotone input
IDSET_parse(bytes) ==
    LET parsed == ParseBlocks(bytes, 1, {})
    IN  IF parsed.ok THEN [null |-> FALSE, single |-> FALSE, ids |-> parsed.ids] ELSE NullIdset

\* ndr_push_idset(ndr, idset); a scalar of the wire form counts for 4 bytes
IdsetToken(bytes) == Token("idset", bytes, 4 * Len(bytes))

ndr_push_idset(sd, idset) == Push(sd, IdsetToken(IDSET_serialize(idset)))

(***************************************************************************)
(* Identifier codec.                                                       *)
(***************************************************************************)
\* a 64-bit folder or message id
Fmid(replid, hi, lo) == [replid |-> replid, hi |-> hi, lo |-> lo]

\* byte i (from 0) of the 64-bit value (hi << 32) | lo, little endian
IdByte(id, i) ==
    IF i < 4 THEN (id[2] \div (256 ^ i)) % 256
    ELSE IF i < 6 THEN (id[1] \div (256 ^ (i - 4))) % 256
    ELSE 0

\* exchange_globcnt(delta) >> 16, for the monotone injection
\* delta |-> delta * 2^16 of the 32-bit deltas into the 48-bit counters
GlobcntHigh(delta) == delta

\* emsmdbp_replid_to_guid: the replica registry of the mailbox
KnownReplid(st, replid) == replid \in DOMAIN st.replids

\* an encoder that writes the four low bytes of the counter only
SourceKeyOfLowBytes(st, fmid) ==
    <<XID_SIZE, st.replids[fmid.replid]>> \o [i \in 1..6 |-> IdByte(<<0, fmid.lo>>, i - 1)]

\* static int oxcfxics_source_key_from_fmid(...): a Binary_r of 22 bytes,
\* the GUID (one element) and the six bytes of fmid >> 16
oxcfxics_source_key_from_fmid(st, fmid) ==
    <<XID_SIZE, st.replids[fmid.replid]>> \o [i \in 1..6 |-> IdByte(<<fmid.hi, fmid.lo>>, i - 1)]

\* emsmdbp_guid_to_replid: the registry read the other way
KnownGuid(st, guid) == \E replid \in DOMAIN st.replids : st.replids[replid] = guid

\* a decoder that takes every GUID for the one of replica 1
FmidFromAnyKey(st, source_key) ==
    [error |-> FALSE, fmid |-> Fmid(1, source_key[7] + 256 * source_key[8], source_key[3] + 256 * source_key[4])]

\* a decoder that reads the replica where the GUID is found but the
\* counter of no key
FmidOfReplica(st, source_key) ==
    IF ~KnownGuid(st, source_key[2]) THEN [error |-> TRUE, fmid |-> Fmid(0, 0, 0)]
    ELSE [error |-> FALSE, fmid |-> Fmid(CHOOSE replid \in DOMAIN st.replids : st.replids[replid] = source_key[2], 0, 0)]

\* static int oxcfxics_fmid_from_source_key(emsmdbp_ctx, source_key, fmidp):
\* the GUID is looked up and the six bytes after it are read, whatever the
\* length cb (element 1) of the key says
oxcfxics_fmid_from_source_key(st, source_key) ==
    LET guid == source_key[2]
        bytes == [i \in 0..5 |-> source_key[3 + i]]
    IN  IF ~KnownGuid(st, guid)
        THEN [error |-> TRUE, fmid |-> Fmid(0, 0, 0)]
        ELSE [error |-> FALSE,
              fmid |-> Fmid(CHOOSE replid \in DOMAIN st.replids : st.replids[replid] = guid,
                            bytes[4] + 256 * bytes[5],
                            bytes[0] + 256 * bytes[1] + 65536 * bytes[2] + 16777216 * bytes[3])]

\* static struct Binary_r *oxcfxics_make_xid(mem_ctx, replica_guid, id, idlength)
oxcfxics_make_xid(replica_guid, id, idlength) ==
    <<16 + idlength, replica_guid>> \o [i \in 1..idlength |-> IdByte(id, i - 1)]

oxcfxics_make_gid(replica_guid, id) == oxcfxics_make_xid(replica_guid, id, 6)

(***************************************************************************)
(* Rows of the store.  An object of the store (message, folder, attachment)*)
(* has a function `props' from property ids to values; a table row gives,  *)
(* for every column, a status and a data pointer.                          *)
(***************************************************************************)
Column(obj, tag) ==
    IF tag.id \in DOMAIN obj.props
    THEN [retval |-> "MAPI_E_SUCCESS", data |-> Ptr(obj.props[tag.id])]
    ELSE [retval |-> "MAPI_E_NOT_FOUND", data |-> NullPtr]

\* emsmdbp_object_table_get_row_props(mem_ctx, emsmdbp_ctx, table_object, i, &retvals)
emsmdbp_object_table_get_row_props(obj, properties) == [i \in 1..Len(properties) |-> Column(obj, properties[i])]

\* SPropTagArray_find into an index of the zeroed oxcfxics_prop_index:
\* the index of the first column is kept when the tag is not found
SPropTagArray_find(properties, tag) ==
    IF \E i \in 1..Len(properties) : properties[i] = tag
    THEN CHOOSE i \in 1..Len(properties) : properties[i] = tag /\ \A j \in 1..(i - 1) : properties[j] # tag
    ELSE 1

Succeeded(n) == [i \in 1..n |-> "MAPI_E_SUCCESS"]

\* a list of <<tag, data pointer>> pushed with zeroed retvals
PushHeader(sd, st, header) ==
    oxcfxics_ndr_push_properties(sd, st.nameids, [i \in 1..Len(header) |-> header[i][1]], [i \in 1..Len(header) |-> header[i][2]], Succeeded(Len(header)), 1)

\* the columns past the first `anchors' of a row
PushRemaining(sd, st, properties, row, anchors) ==
    IF Len(properties) > anchors
    THEN oxcfxics_ndr_push_properties(sd, st.nameids, SubSeq(properties, anchors + 1, Len(properties)),
                                      [i \in 1..(Len(properties) - anchors) |-> row[anchors + i].data],
                                      [i \in 1..(Len(properties) - anchors) |-> row[anchors + i].retval], 1)
    ELSE sd

\* the change number of a row: lines 587-590 and 858-861
ChangeNumber(eid, unix_time) ==
    <<eid.hi, GlobcntHigh((IF unix_time < oc_version_time THEN oc_version_time ELSE unix_time) - oc_version_time)>>

\* the time of the last modification used for the change number
RowUnixTime(col) == IF col.retval # "MAPI_E_SUCCESS" THEN oc_version_time ELSE col.data.v[1]

\* static void oxcfxics_push_messageChange_recipients(...)
RECURSIVE PushRecipients(_, _, _, _)
PushRecipients(sd, st, aRow, i) ==
    IF i > Len(aRow) \/ sd.aborted
    THEN sd
    ELSE LET start == PushU32(PushCutmark(sd), "PR_START_RECIP")
             rowid == Push(PushU32(PushCutmark(start), "PR_ROWID"), Token("PT_LONG", <<i - 1>>, 4))
             props == PushHeader(rowid, st, aRow[i])
         IN  PushRecipients(PushU32(PushCutmark(props), "PR_END_RECIP"), st, aRow, i + 1)

oxcfxics_push_messageChange_recipients(sd, st, msg) ==
    LET del == PushU32(PushU32(PushCutmark(sd), "PR_FX_DEL_PROP"), "PR_MESSAGE_RECIPIENTS")
    IN  IF msg.recipients.null THEN del ELSE PushRecipients(del, st, msg.recipients.aRow, 1)

AttachPropTags == <<Tag("PR_ATTACH_METHOD", "PT_LONG"), Tag("PR_ATTACH_TAG", "PT_BINARY"), Tag("PR_ATTACH_SIZE", "PT_LONG"),
                    Tag("PR_RECORD_KEY", "PT_BINARY"), Tag("PR_ATTACH_LONG_FILENAME", "PT_UNICODE"), PR_DISPLAY_NAME_UNICODE,
                    Tag("PR_ATTACH_CONTENT_ID", "PT_UNICODE"), Tag("PR_ATTACH_MIME_TAG", "PT_UNICODE"),
                    Tag("PR_CREATION_TIME", "PT_SYSTIME"), PR_LAST_MODIFICATION_TIME, Tag("PR_ATTACH_DATA_BIN", "PT_BINARY")>>

RECURSIVE PushAttachments(_, _, _, _)
PushAttachments(sd, st, rows, i) ==
    IF i > Len(rows) \/ sd.aborted
    THEN sd
    ELSE IF rows[i].null
         THEN Abort(sd)
         ELSE LET row == emsmdbp_object_table_get_row_props(rows[i], AttachPropTags)
                  new == Push(PushU32(PushU32(PushCutmark(sd), "PR_NEW_ATTACH"), "PR_ATTACH_NUM"), Token("PT_LONG", <<i - 1>>, 4))
                  props == PushRemaining(new, st, AttachPropTags, row, 0)
              IN  PushAttachments(PushU32(props, "PR_END_ATTACH"), st, rows, i + 1)

\* static void oxcfxics_push_messageChange_attachments(...)
oxcfxics_push_messageChange_attachments(sd, st, msg) ==
    LET del == PushU32(PushU32(sd, "PR_FX_DEL_PROP"), "PR_MESSAGE_ATTACHMENTS")
    IN  IF msg.attachments.null THEN del ELSE PushAttachments(del, st, msg.attachments.rows, 1)

(***************************************************************************)
(* The sync producer.                                                      *)
(***************************************************************************)
\* the header of a message row: lines 559-651
MessageHeader(st, sc, prop_index, row, eid, cn) ==
    <<<<PR_SOURCE_KEY, Ptr(oxcfxics_source_key_from_fmid(st, eid))>>,
      <<PR_LAST_MODIFICATION_TIME, IF row[prop_index.last_modification_time].retval # "MAPI_E_SUCCESS" THEN Ptr(<<oc_version_time>>) ELSE row[prop_index.last_modification_time].data>>,
      <<PR_CHANGE_KEY, Ptr(oxcfxics_make_gid(st.replica_guid, cn))>>,
      <<PR_PREDECESSOR_CHANGE_LIST, Ptr(<<XID_SIZE + 1, XID_SIZE>> \o Tail(oxcfxics_make_gid(st.replica_guid, cn)))>>,
      <<PR_ASSOCIATED, IF row[prop_index.associated].retval # "MAPI_E_SUCCESS" THEN Ptr(<<0>>) ELSE row[prop_index.associated].data>>>>
    \o (IF sc.request.request_eid THEN <<<<PR_MID, Ptr(<<eid>>)>>>> ELSE <<>>)
    \o (IF sc.request.request_message_size
        THEN <<<<PR_MESSAGE_SIZE, IF row[prop_index.parent_fid].retval # "MAPI_E_SUCCESS" THEN Ptr(<<0>>) ELSE row[prop_index.message_size].data>>>>
        ELSE <<>>)
    \o (IF sc.request.request_cn THEN <<<<PR_CHANGE_NUM, Ptr(<<Fmid(eid.replid, cn[1], cn[2])>>)>>>> ELSE <<>>)

\* lines 653-671: the change, once the row is known to be new
MessageChangeFull(sd, st, sc, msg, row, header) ==
    oxcfxics_push_messageChange_attachments(
        oxcfxics_push_messageChange_recipients(
            PushRemaining(PushU32(PushHeader(PushU32(sd, "PR_INCR_SYNC_CHG"), st, header), "PR_INCR_SYNC_MSG"), st, sc.properties, row, 7),
            st, msg),
        st, msg)

\* a walk that records the id of a row only when the row is emitted
MessageChangeIdsOfEmitted(sd, st, sc, prop_index, msg, row, eid, cn) ==
    IF IDSET_includes_id(sc.cnset_seen, st.replica_guid, cn)
    THEN sd
    ELSE MessageChangeFull([sd EXCEPT !.eid_set = RAWIDSET_push_glob(@, st.replids[eid.replid], <<eid.hi, eid.lo>>),
                                      !.cnset_seen = RAWIDSET_push_glob(@, st.replica_guid, cn)],
                           st, sc, msg, row, MessageHeader(st, sc, prop_index, row, eid, cn))

\* lines 560-596: the ids of the row and the test on the change number
\* a walk that also skips a row whose change number an earlier row of the
\* same walk had
MessageChangeIdsOnce(sd, st, sc, prop_index, msg, row, eid, cn) ==
    IF IDSET_includes_id(sc.cnset_seen, st.replica_guid, cn) \/ <<st.replica_guid, cn[1], cn[2]>> \in SeqRange(sd.cnset_seen)
    THEN [sd EXCEPT !.eid_set = RAWIDSET_push_glob(@, st.replids[eid.replid], <<eid.hi, eid.lo>>)]
    ELSE MessageChangeFull([sd EXCEPT !.eid_set = RAWIDSET_push_glob(@, st.replids[eid.replid], <<eid.hi, eid.lo>>),
                                      !.cnset_seen = RAWIDSET_push_glob(@, st.replica_guid, cn)],
                           st, sc, msg, row, MessageHeader(st, sc, prop_index, row, eid, cn))

MessageChangeIds(sd, st, sc, prop_index, msg, row, eid, cn) ==
    IF IDSET_includes_id(sc.cnset_seen, st.replica_guid, cn)
    THEN [sd EXCEPT !.eid_set = RAWIDSET_push_glob(@, st.replids[eid.replid], <<eid.hi, eid.lo>>)]
    ELSE MessageChangeFull([sd EXCEPT !.eid_set = RAWIDSET_push_glob(@, st.replids[eid.replid], <<eid.hi, eid.lo>>),
                                      !.cnset_seen = RAWIDSET_push_glob(@, st.replica_guid, cn)],
                           st, sc, msg, row, MessageHeader(st, sc, prop_index, row, eid, cn))

\* one row of oxcfxics_push_messageChange (lines 547-678).  A row whose
\* PR_MID is missing or names an unregistered replica makes the code read
\* through an invalid pointer; the stores of the model have no such row.
MessageChangeCols(sd, st, sc, prop_index, msg, row) ==
    IF row[prop_index.eid].data.null \/ ~KnownReplid(st, row[prop_index.eid].data.v[1].replid)
    THEN Abort(sd)
    ELSE MessageChangeIds(sd, st, sc, prop_index, msg, row, row[prop_index.eid].data.v[1],
                          ChangeNumber(row[prop_index.eid].data.v[1], RowUnixTime(row[prop_index.last_modification_time])))

MessageChangeRow(sd, st, sc, prop_index, msg) ==
    MessageChangeCols(PushCutmark(sd), st, sc, prop_index, msg, emsmdbp_object_table_get_row_props(msg, sc.properties))

RECURSIVE PushMessageRows(_, _, _, _, _, _)
PushMessageRows(sd, st, sc, prop_index, rows, i) ==
    IF i > Len(rows) \/ sd.aborted
    THEN sd
    ELSE IF rows[i].null
         THEN Abort(sd)
         ELSE PushMessageRows(MessageChangeRow(sd, st, sc, prop_index, rows[i]), st, sc, prop_index, rows, i + 1)

\* static void oxcfxics_push_messageChange(mem_ctx, emsmdbp_ctx, synccontext, sync_data, folder_object)
oxcfxics_push_messageChange(sd, st, sc, prop_index, table) ==
    IF table.null THEN Abort(sd) ELSE PushMessageRows(sd, st, sc, prop_index, table.rows, 1)

\* ndr_push_uint32(ndr, NDR_SCALARS, <state property>); ndr_push_idset(ndr, idset)
PushState(sd, property, idset) == ndr_push_idset(PushU32(sd, property), idset)

\* lines 757-761 and 996-1000
EndOfStream(sd) == [PushU32(PushU32(sd, "PR_INCR_SYNC_STATE_END"), "PR_INCR_SYNC_END") EXCEPT !.cutmarks = Append(@, CUTMARK_END)]

\* a state block that looks at the Normal flag where line 747 looks at FAI
StateOnNormal(sd, sc, sets) == IF sc.request.normal THEN PushState(sd, "PidTagCnsetSeenFAI", sets[2]) ELSE sd

\* lines 747-750
StateFAI(sd, sc, sets) == IF sc.request.fai THEN PushState(sd, "PidTagCnsetSeenFAI", sets[2]) ELSE sd

\* lines 753-756
StateRead(sd, sc, sets) == IF sc.request.read_state THEN PushState(sd, "PidTagCnsetRead", sets[2]) ELSE sd

\* the state block and the end of the stream of a contents synchronization
\* (lines 729-761); sets is <<idset_given, cnset_seen>> after the merges
ContentsState(sd, sc, sets) ==
    EndOfStream(StateRead(PushState(StateFAI(PushState(PushU32(sd, "PR_INCR_SYNC_STATE_BEGIN"), "PidTagCnsetSeen", sets[2]), sc, sets),
                                    "PidTagIdsetGiven", sets[1]), sc, sets))

\* the fields of the context set at the end of a production
StoreStream(sc, sd, sets) ==
    [sc EXCEPT !.idset_given = sets[1], !.cnset_seen = sets[2], !.cutmarks = sd.cutmarks,
               !.stream = [null |-> FALSE, data |-> sd.ndr, length |-> sd.offset, position |-> sc.stream.position]]

\* the session sets merged with the accumulators of a production
MergedSets(sc, sd) ==
    <<IDSET_merge_idsets(sc.idset_given, RAWIDSET_convert_to_idset(sd.eid_set, FALSE)),
      IDSET_merge_idsets(sc.cnset_seen, RAWIDSET_convert_to_idset(sd.cnset_seen, TRUE))>>

\* lines 703-707: the indexes of the mandatory properties
ContentsPropIndex(properties) ==
    [eid |-> SPropTagArray_find(properties, PR_MID),
     last_modification_time |-> SPropTagArray_find(properties, PR_LAST_MODIFICATION_TIME),
     associated |-> SPropTagArray_find(properties, PR_ASSOCIATED),
     message_size |-> SPropTagArray_find(properties, PR_MESSAGE_SIZE),
     parent_fid |-> 1, display_name |-> 1]

\* lines 717-721
NormalMessages(sd, st, sc, prop_index) ==
    IF sc.request.normal THEN oxcfxics_push_messageChange(sd, st, sc, prop_index, st.folder.messages) ELSE sd

\* lines 723-727
FAIMessages(sd, st, sc, prop_index) ==
    IF sc.request.fai /\ ~sd.aborted THEN oxcfxics_push_messageChange(sd, st, sc, prop_index, st.folder.fai) ELSE sd

\* lines 729-767
ContentsPrepared(sc, sd, sets) ==
    IF sd.aborted
    THEN [aborted |-> TRUE, synccontext |-> sc, sync_data |-> sd]
    ELSE [aborted |-> FALSE, synccontext |-> StoreStream(sc, ContentsState(sd, sc, sets), sets), sync_data |-> sd]

ContentsMerged(sc, sd) == ContentsPrepared(sc, sd, MergedSets(sc, sd))

\* static void oxcfxics_prepare_synccontext_with_messageChange(mem_ctx, synccontext_object)
oxcfxics_prepare_synccontext_with_messageChange(st, sc) ==
    ContentsMerged(sc, FAIMessages(NormalMessages(NewSyncData, st, sc, ContentsPropIndex(sc.properties)), st, sc, ContentsPropIndex(sc.properties)))

\* the header of a folder row: lines 817-913
FolderHeader(st, sc, prop_index, row, eid, cn, top) ==
    <<<<PR_PARENT_SOURCE_KEY, Ptr(IF top THEN <<0>> ELSE oxcfxics_source_key_from_fmid(st, row[prop_index.parent_fid].data.v[1]))>>,
      <<PR_SOURCE_KEY, Ptr(oxcfxics_source_key_from_fmid(st, eid))>>,
      <<PR_LAST_MODIFICATION_TIME, IF row[prop_index.last_modification_time].retval # "MAPI_E_SUCCESS" THEN Ptr(<<oc_version_time>>) ELSE row[prop_index.last_modification_time].data>>,
      <<PR_CHANGE_KEY, Ptr(oxcfxics_make_gid(st.replica_guid, cn))>>,
      <<PR_PREDECESSOR_CHANGE_LIST, Ptr(<<XID_SIZE + 1, XID_SIZE>> \o Tail(oxcfxics_make_gid(st.replica_guid, cn)))>>,
      <<PR_DISPLAY_NAME_UNICODE, IF row[prop_index.display_name].retval # "MAPI_E_SUCCESS" THEN Ptr(<<>>) ELSE row[prop_index.display_name].data>>>>
    \o (IF sc.request.request_eid THEN <<<<PR_FID, row[prop_index.eid].data>>>> ELSE <<>>)
    \o (IF sc.request.no_foreign_identifiers
        THEN <<<<PR_PARENT_FID, IF row[prop_index.parent_fid].retval # "MAPI_E_SUCCESS" THEN Ptr(<<Fmid(0, 0, 0)>>) ELSE row[prop_index.parent_fid].data>>>>
        ELSE <<>>)

\* lines 831-923: the ids of the row, the test on the change number, the change
FolderChangeIds(sd, st, sc, prop_index, row, eid, cn, top) ==
    IF IDSET_includes_id(sc.cnset_seen, st.replica_guid, cn)
    THEN [sd EXCEPT !.eid_set = RAWIDSET_push_glob(@, st.replids[eid.replid], <<eid.hi, eid.lo>>)]
    ELSE PushRemaining(PushHeader(PushU32([sd EXCEPT !.eid_set = RAWIDSET_push_glob(@, st.replids[eid.replid], <<eid.hi, eid.lo>>),
                                                     !.cnset_seen = RAWIDSET_push_glob(@, st.replica_guid, cn)], "PR_INCR_SYNC_CHG"),
                                  st, FolderHeader(st, sc, prop_index, row, eid, cn, top)),
                       st, sc.properties, row, 5)

\* one folder row (lines 805-929); top tells that the row belongs to the
\* table of the topmost folder.  A row whose PR_FID or PR_PARENT_FID is
\* missing or names an unregistered replica makes the code read through an
\* invalid pointer; the stores of the model have no such row.
FolderChangeCols(sd, st, sc, prop_index, row, top) ==
    IF row[prop_index.eid].data.null \/ ~KnownReplid(st, row[prop_index.eid].data.v[1].replid)
       \/ (~top /\ (row[prop_index.parent_fid].data.null \/ ~KnownReplid(st, row[prop_index.parent_fid].data.v[1].replid)))
    THEN Abort(sd)
    ELSE FolderChangeIds(sd, st, sc, prop_index, row, row[prop_index.eid].data.v[1],
                         ChangeNumber(row[prop_index.eid].data.v[1], RowUnixTime(row[prop_index.last_modification_time])), top)

FolderChangeRow(sd, st, sc, prop_index, fld, top) ==
    FolderChangeCols(PushCutmark(sd), st, sc, prop_index, emsmdbp_object_table_get_row_props(fld, sc.properties), top)

\* static void oxcfxics_push_folderChange(...): every row, then the table of
\* the folder of the row, depth first; a folder without hierarchy table
\* contributes nothing
RECURSIVE PushFolderRows(_, _, _, _, _, _, _)
RECURSIVE SubFolders(_, _, _, _, _)
\* a walk that emits the rows of a table before the tables below them
RECURSIVE PushFolderRowsFirst(_, _, _, _, _, _, _)
PushFolderRowsFirst(sd, st, sc, prop_index, rows, i, top) ==
    IF i > Len(rows) \/ sd.aborted
    THEN sd
    ELSE IF rows[i].null
         THEN Abort(sd)
         ELSE SubFolders(PushFolderRowsFirst(FolderChangeRow(sd, st, sc, prop_index, rows[i], top), st, sc, prop_index, rows, i + 1, top),
                         st, sc, prop_index, rows[i].folders)

PushFolderRows(sd, st, sc, prop_index, rows, i, top) ==
    IF i > Len(rows) \/ sd.aborted
    THEN sd
    ELSE IF rows[i].null
         THEN Abort(sd)
         ELSE PushFolderRows(SubFolders(FolderChangeRow(sd, st, sc, prop_index, rows[i], top), st, sc, prop_index, rows[i].folders),
                             st, sc, prop_index, rows, i + 1, top)

\* lines 931-932: the table of the folder of the row
SubFolders(sd, st, sc, prop_index, table) ==
    IF sd.aborted \/ table.null THEN sd ELSE PushFolderRows(sd, st, sc, prop_index, table.rows, 1, FALSE)

oxcfxics_push_folderChange(sd, st, sc, prop_index, table) ==
    IF table.null THEN sd ELSE PushFolderRows(sd, st, sc, prop_index, table.rows, 1, TRUE)

\* the state block and the end of the stream of a hierarchy synchronization
\* (lines 976-1000)
HierarchyState(sd, sc, sets) ==
    EndOfStream(PushState(PushState(PushU32(sd, "PR_INCR_SYNC_STATE_BEGIN"), "PidTagCnsetSeen", sets[2]), "PidTagIdsetGiven", sets[1]))

\* lines 958-962: the indexes of the mandatory properties
HierarchyPropIndex(properties) ==
    [eid |-> SPropTagArray_find(properties, PR_FID),
     last_modification_time |-> SPropTagArray_find(properties, PR_LAST_MODIFICATION_TIME),
     associated |-> 1, message_size |-> 1,
     parent_fid |-> SPropTagArray_find(properties, PR_PARENT_FID),
     display_name |-> SPropTagArray_find(properties, PR_DISPLAY_NAME_UNICODE)]

\* lines 976-1007
HierarchyPrepared(sc, sd, sets) ==
    IF sd.aborted
    THEN [aborted |-> TRUE, synccontext |-> sc, sync_data |-> sd]
    ELSE [aborted |-> FALSE, synccontext |-> StoreStream(sc, HierarchyState(sd, sc, sets), sets), sync_data |-> sd]

HierarchyMerged(sc, sd) == HierarchyPrepared(sc, sd, MergedSets(sc, sd))

\* static void oxcfxics_prepare_synccontext_with_folderChange(synccontext_object)
oxcfxics_prepare_synccontext_with_folderChange(st, sc) ==
    HierarchyMerged(sc, oxcfxics_push_folderChange(NewSyncData, st, sc, HierarchyPropIndex(sc.properties), st.folder.folders))

(***************************************************************************)
(* The chunker: EcDoRpc_RopFastTransferSourceGetBuffer.                    *)
(***************************************************************************)
NullStream == [null |-> TRUE, data |-> <<>>, length |-> 0, position |-> 0]

\* a chunker that takes BufferSize as it comes, 0xBABE included
BufferSizeAsSent(BufferSize, MaximumBufferSize) == BufferSize

\* lines 1073-1076
EffectiveBufferSize(BufferSize, MaximumBufferSize) == IF BufferSize = BABE THEN MaximumBufferSize ELSE BufferSize

\* lines 1083 and 1124; a division by zero that does not trap gives the
\* quotient 0
TotalSteps(length, buffer_size) == IF buffer_size = 0 THEN 1 ELSE (length \div buffer_size) + 1

\* the same loop with a bound that takes in a cut-mark at max_cutmark
RECURSIVE CutLoopInclusive(_, _, _, _)
CutLoopInclusive(cutmarks, mark_ptr, max_cutmark, cutbuffer_pos) ==
    IF cutmarks[mark_ptr + 1] # CUTMARK_END /\ cutmarks[mark_ptr + 1] <= max_cutmark
    THEN CutLoopInclusive(cutmarks, mark_ptr + 1, max_cutmark, cutmarks[mark_ptr + 1] % UINT16_MOD)
    ELSE cutbuffer_pos

\* the while loop of lines 1092-1095 and 1133-1136; mark_ptr counts from 0
RECURSIVE CutLoop(_, _, _, _)
CutLoop(cutmarks, mark_ptr, max_cutmark, cutbuffer_pos) ==
    IF cutmarks[mark_ptr + 1] # CUTMARK_END /\ cutmarks[mark_ptr + 1] < max_cutmark
    THEN CutLoop(cutmarks, mark_ptr + 1, max_cutmark, cutmarks[mark_ptr + 1] % UINT16_MOD)
    ELSE cutbuffer_pos

\* the test of lines 1096-1101 and 1137-1142; tested is the position read
\* by the comparison of line 1096, respectively of line 1137
ShrunkSize(tested, position, cutbuffer_pos, buffer_size) ==
    LET cutbuffer_size == (cutbuffer_pos - position) % UINT16_MOD
    IN  IF tested < cutbuffer_pos /\ cutbuffer_size > 0 /\ cutbuffer_size < buffer_size
        THEN cutbuffer_size
        ELSE buffer_size

\* the size read from the stream: lines 1088-1102 and 1129-1143, with the
\* uint16_t locals cutbuffer_pos, max_cutmark and cutbuffer_size
CutBufferSize(ctx, tested, buffer_size) ==
    IF (ctx.stream.position % UINT16_MOD) + buffer_size < ctx.stream.length
    THEN ShrunkSize(tested, ctx.stream.position,
                    CutLoop(ctx.cutmarks, ctx.next_cutmark_ptr, (ctx.stream.position + buffer_size) % UINT16_MOD, ctx.stream.position % UINT16_MOD),
                    buffer_size)
    ELSE buffer_size

\* emsmdbp_stream_read_buffer(stream, length): a view of at most `length'
\* bytes from the position, which advances (not part of these sources)
ReadLength(stream, length) == Min(length, stream.length - stream.position)

emsmdbp_stream_read_buffer(stream, length) == [stream EXCEPT !.position = @ + ReadLength(stream, length)]

\* a status that never tells the end of the stream
TransferStatusPartial(stream) == "TransferStatus_Partial"

\* a status that compares with <= where lines 1106 and 1147 compare with ==
TransferStatusWithin(stream) == IF stream.position <= stream.length THEN "TransferStatus_Done" ELSE "TransferStatus_Partial"

\* lines 1106-1113 and 1147-1154
TransferStatus(stream) == IF stream.position = stream.length THEN "TransferStatus_Done" ELSE "TransferStatus_Partial"

\* the reply of a successful GetBuffer, with the request kept beside it
GetBufferReply(before, after, request, buffer_size, handle) ==
    [op |-> "GetBuffer", handle |-> handle, error_code |-> "MAPI_E_SUCCESS",
     BufferSize |-> request[1], MaximumBufferSize |-> request[2],
     TransferStatus |-> TransferStatus(after.stream),
     TotalStepCount |-> after.total_steps,
     InProgressCount |-> IF TransferStatus(after.stream) = "TransferStatus_Done" THEN after.total_steps ELSE after.steps,
     start |-> before.stream.position, TransferBufferSize |-> after.stream.position - before.stream.position,
     buffer_size |-> buffer_size, length |-> after.stream.length]

ErrorReply(op, handle, error_code) == [op |-> op, handle |-> handle, error_code |-> error_code]

\* case EMSMDBP_OBJECT_FTCONTEXT: the context after the call
FtGetBuffer(ft, buffer_size) ==
    LET counted == IF ft.stream.position = 0
                   THEN [ft EXCEPT !.steps = 1, !.total_steps = TotalSteps(ft.stream.length, buffer_size)]
                   ELSE [ft EXCEPT !.steps = @ + 1]
    IN  [counted EXCEPT !.stream = emsmdbp_stream_read_buffer(@, CutBufferSize(ft, ft.stream.position, buffer_size))]

\* case EMSMDBP_OBJECT_SYNCCONTEXT, once the stream is there; line 1137
\* reads the position through object.ftcontext, whatever that gives
SyncGetBuffer(sc, fresh, tested, buffer_size) ==
    LET counted == IF fresh
                   THEN [sc EXCEPT !.steps = 1, !.total_steps = TotalSteps(sc.stream.length, buffer_size)]
                   ELSE [sc EXCEPT !.steps = @ + 1]
    IN  [counted EXCEPT !.stream = emsmdbp_stream_read_buffer(@, CutBufferSize(sc, tested, buffer_size))]

(***************************************************************************)
(* The stores the model runs on.                                           *)
(***************************************************************************)
NoTable == [null |-> TRUE, available_ok |-> FALSE, available |-> <<>>, rows |-> <<>>]
Table(available, rows) == [null |-> FALSE, available_ok |-> TRUE, available |-> available, rows |-> rows]

NoRecipients == [null |-> TRUE, aRow |-> <<>>]
NoAttachments == [null |-> TRUE, rows |-> <<>>]

Message(props, recipients, attachments) == [null |-> FALSE, props |-> props, recipients |-> recipients, attachments |-> attachments]
Folder(props, folders) == [null |-> FALSE, props |-> props, folders |-> folders]

NAMED_LID == Tag("NAMED_LID", "PT_LONG")
NAMED_STRING == Tag("NAMED_STRING", "PT_UNICODE")
NAMED_UNKNOWN == Tag("NAMED_UNKNOWN", "PT_LONG")
PR_KEYWORDS == MvTag("PR_KEYWORDS", "PT_UNICODE")

\* mapistore_namedprops_get_nameid knows two of the three named properties
Nameids == ("NAMED_LID" :> [ulKind |-> "MNID_ID", Name |-> <<34>>]) @@ ("NAMED_STRING" :> [ulKind |-> "MNID_STRING", Name |-> <<"k", "e", "y">>])

Replids == (1 :> 1) @@ (2 :> 2)

Msg1 == Message(("PR_MID" :> <<Fmid(1, 0, 1)>>) @@ ("PR_LAST_MODIFICATION_TIME" :> <<oc_version_time + 1>>) @@ ("PR_MESSAGE_SIZE" :> <<120>>)
                @@ ("PR_SUBJECT" :> <<"h", "i">>) @@ ("NAMED_UNKNOWN" :> <<7>>),
                [null |-> FALSE, aRow |-> <<<<<<PR_DISPLAY_NAME_UNICODE, Ptr(<<"a">>)>>>>>>],
                [null |-> FALSE, rows |-> <<[null |-> FALSE, props |-> ("PR_ATTACH_SIZE" :> <<3>>)]>>])

Msg2 == Message(("PR_MID" :> <<Fmid(1, 0, 2)>>) @@ ("PR_LAST_MODIFICATION_TIME" :> <<oc_version_time + 2>>) @@ ("PR_ASSOCIATED" :> <<0>>)
                @@ ("NAMED_LID" :> <<5>>) @@ ("PR_KEYWORDS" :> <<<<"x">>, <<"y", "z">>>>),
                NoRecipients, NoAttachments)

\* a message never modified after the server was born: its change number is
\* that of Msg4, which carries no modification time at all
Msg3 == Message(("PR_MID" :> <<Fmid(2, 0, 3)>>) @@ ("PR_LAST_MODIFICATION_TIME" :> <<oc_version_time - 5>>) @@ ("NAMED_UNKNOWN" :> <<9>>), NoRecipients, NoAttachments)
Msg4 == Message(("PR_MID" :> <<Fmid(1, 0, 4)>>) @@ ("NAMED_STRING" :> <<"v">>), NoRecipients, NoAttachments)

FaiMsg == Message(("PR_MID" :> <<Fmid(1, 0, 9)>>) @@ ("PR_LAST_MODIFICATION_TIME" :> <<oc_version_time + 9>>) @@ ("PR_ASSOCIATED" :> <<1>>), NoRecipients, NoAttachments)

\* a message with a body of 69000 bytes
BigMsg == Message(("PR_MID" :> <<Fmid(1, 0, 6)>>) @@ ("PR_LAST_MODIFICATION_TIME" :> <<oc_version_time + 6>>) @@ ("PR_BODY_HTML" :> <<69000>>), NoRecipients, NoAttachments)

MessageColumns == <<Tag("PR_SUBJECT", "PT_UNICODE"), NAMED_UNKNOWN, NAMED_LID, NAMED_STRING, PR_KEYWORDS, PR_BODY_HTML>>

Inbox == Folder(("PR_FID" :> <<Fmid(1, 0, 16)>>) @@ ("PR_PARENT_FID" :> <<Fmid(1, 0, 15)>>) @@ ("PR_LAST_MODIFICATION_TIME" :> <<oc_version_time + 1>>)
                @@ ("PR_DISPLAY_NAME" :> <<"I", "N", "B", "O", "X">>),
                Table(<<PR_DISPLAY_NAME_UNICODE>>, <<Folder(("PR_FID" :> <<Fmid(1, 0, 17)>>) @@ ("PR_PARENT_FID" :> <<Fmid(1, 0, 16)>>)
                                                            @@ ("PR_LAST_MODIFICATION_TIME" :> <<oc_version_time + 3>>), NoTable)>>))
Drafts == Folder(("PR_FID" :> <<Fmid(1, 0, 18)>>) @@ ("PR_PARENT_FID" :> <<Fmid(1, 0, 15)>>) @@ ("NAMED_UNKNOWN" :> <<1>>), Table(<<>>, <<>>))

Store(name, props, available, messages, fai, folders) ==
    [name |-> name, replica_guid |-> 1, replids |-> Replids, nameids |-> Nameids,
     folder |-> [props |-> props, available_ok |-> TRUE, available |-> available, props_ok |-> TRUE,
                 messages |-> messages, fai |-> fai, folders |-> folders, folderID |-> Fmid(1, 0, 15)],
     mapistore |-> TRUE, read_only |-> FALSE, created |-> {}, written |-> {}, requests |-> <<>>, imports |-> 0,
     GlobalCount |-> 250, reserved |-> <<>>]

NoProps == [x \in {} |-> <<>>]

EmptyStore == Store("empty", NoProps, <<>>, Table(<<>>, <<>>), Table(<<>>, <<>>), Table(<<>>, <<>>))

MailStore == Store("mail", ("PR_DISPLAY_NAME" :> <<"T", "o", "p">>) @@ ("NAMED_UNKNOWN" :> <<1>>) @@ ("PR_MESSAGE_SIZE" :> <<9>>),
                   <<PR_DISPLAY_NAME_UNICODE, NAMED_UNKNOWN, PR_MESSAGE_SIZE>>,
                   Table(MessageColumns, <<Msg1, Msg2, Msg3, Msg4>>), Table(MessageColumns, <<FaiMsg>>),
                   Table(<<PR_DISPLAY_NAME_UNICODE, NAMED_UNKNOWN>>, <<Inbox, Drafts>>))

\* a folder whose seven binary properties put the cut-marks of a CopyTo at
\* 0, 100, 500, 900, 4096, 4500 and 8000 in a stream of 10000 bytes
ChunkStore == Store("chunk", ("P1" :> <<92>>) @@ ("P2" :> <<392>>) @@ ("P3" :> <<392>>) @@ ("P4" :> <<3188>>) @@ ("P5" :> <<396>>) @@ ("P6" :> <<3492>>) @@ ("P7" :> <<1992>>),
                    <<Tag("P1", "PT_BINARY"), Tag("P2", "PT_BINARY"), Tag("P3", "PT_BINARY"), Tag("P4", "PT_BINARY"), Tag("P5", "PT_BINARY"), Tag("P6", "PT_BINARY"), Tag("P7", "PT_BINARY")>>,
                    Table(MessageColumns, <<BigMsg>>), NoTable, NoTable)

\* a folder with properties of 50000, 30000 and 59976 bytes: cut-marks at
\* 0, 50008 and 80016 in a stream of 140000 bytes
BigStore == Store("big", ("P1" :> <<50000>>) @@ ("P2" :> <<30000>>) @@ ("P3" :> <<59976>>),
                  <<Tag("P1", "PT_BINARY"), Tag("P2", "PT_BINARY"), Tag("P3", "PT_BINARY")>>,
                  NoTable, NoTable, NoTable)

\* a store that cannot read the properties of the folder nor open its tables
BrokenStore == [EmptyStore EXCEPT !.name = "broken", !.folder.props_ok = FALSE, !.folder.available = <<PR_DISPLAY_NAME_UNICODE>>,
                                  !.folder.messages = NoTable, !.folder.fai = NoTable, !.folder.folders = NoTable]

Stores == {EmptyStore, MailStore, BrokenStore}

\* the stores of the imports: the mail store, one whose backend refuses to
\* write, and a folder that is not kept by mapistore
ImportStores == {MailStore, [MailStore EXCEPT !.name = "readonly", !.read_only = TRUE], [MailStore EXCEPT !.name = "mailbox", !.mapistore = FALSE]}

(***************************************************************************)
(* The store as the importer uses it (section 6, store interface).  The    *)
(* field requests holds the requests the last import RPC made to the store,*)
(* created the objects made by create_message and create_folder, written   *)
(* the rows given to set_properties.                                       *)
(***************************************************************************)
NoId == Fmid(0, 0, 0)

\* struct SPropValue of a request
SPropValue(tag, value) == [ulPropTag |-> tag, value |-> value]

Request(op, fmid, parent, arg, row) == [op |-> op, fmid |-> fmid, parent |-> parent, arg |-> arg, row |-> row]

Requested(st, request) == [st EXCEPT !.requests = Append(@, request)]

\* the store at the start of an import RPC that reaches it
Served(st) == [st EXCEPT !.requests = <<>>, !.imports = @ + 1]

\* bool emsmdbp_is_mapistore(object): decided by the folder behind the object
emsmdbp_is_mapistore(st) == st.mapistore

\* the ids in column tag of the rows of a table
RowIds(table, tag) ==
    IF table.null THEN {}
    ELSE { table.rows[i].props[tag][1] : i \in { j \in 1..Len(table.rows) : tag \in DOMAIN table.rows[j].props } }

Created(st, kind) == { c.fmid : c \in { x \in st.created : x.kind = kind } }

\* emsmdbp_object_message_open(...): whether the folder holds the message
emsmdbp_object_message_open(st, folderID, messageID) ==
    messageID \in RowIds(st.folder.messages, "PR_MID") \cup RowIds(st.folder.fai, "PR_MID") \cup Created(st, "message")

\* mapistore_folder_create_message(mstore_ctx, context_id, folder, mem_ctx, mid, associated, messagep)
mapistore_folder_create_message(st, folderID, messageID, associated) ==
    LET asked == Requested(st, Request("create_message", messageID, folderID, associated, <<>>))
    IN  IF st.read_only THEN [retval |-> "MAPISTORE_ERROR", store |-> asked]
        ELSE [retval |-> "MAPISTORE_SUCCESS",
              store |-> [asked EXCEPT !.created = @ \cup {[kind |-> "message", fmid |-> messageID, parent |-> folderID, arg |-> associated]}]]

\* the stores with streams of several chunks
ChunkStores == {MailStore, ChunkStore, BigStore}

(***************************************************************************)
(* The session: handles, contexts and the requests of the client.          *)
(***************************************************************************)
\* emsmdbp_object_ftcontext_init and emsmdbp_object_synccontext_init zero
\* the context (not part of these sources)
NewFtContext == [stream |-> NullStream, cutmarks |-> <<>>, next_cutmark_ptr |-> 0, steps |-> 0, total_steps |-> 0]

NoRequest == [contents_mode |-> FALSE, unicode |-> FALSE, read_state |-> FALSE, fai |-> FALSE, normal |-> FALSE,
              no_foreign_identifiers |-> FALSE, best_body |-> FALSE, request_eid |-> FALSE, request_message_size |-> FALSE, request_cn |-> FALSE]

NewSyncContext == [request |-> NoRequest, properties |-> <<>>, idset_given |-> NullIdset, cnset_seen |-> NullIdset,
                   state_property |-> "0", state_stream |-> <<>>, stream |-> NullStream, cutmarks |-> <<>>,
                   next_cutmark_ptr |-> 0, steps |-> 0, total_steps |-> 0, is_collector |-> FALSE]

\* fed: the payloads of the Continue calls of the pending upload, in call order
NoWalk == [builds |-> 0, before |-> <<NullIdset, NullIdset>>, eid_set |-> <<>>, cnset_seen |-> <<>>, uploads |-> 0, fed |-> <<>>]
\* the account of the chunks a context has returned: how many, where each
\* ended, the size asked for first and the sizes asked for
NoChunks == [count |-> 0, ends |-> <<>>, first |-> 0, sizes |-> {}, done |-> FALSE]

Handles == {"folder", "ftcontext", "synccontext"}

\* a SyncConfigure request: SynchronizationType, SendOptions,
\* SynchronizationFlag, SynchronizationExtraFlags and PropertyTags
SyncRequest(type, unicode, flags, extra, tags) == [SynchronizationType |-> type, SendOptions |-> unicode, SynchronizationFlag |-> flags, SynchronizationExtraFlags |-> extra, PropertyTags |-> tags]

SyncRequests ==
    { SyncRequest("Contents", {"Unicode"}, {"Unicode", "Normal"}, {}, <<>>),
      SyncRequest("Contents", {}, {"Normal", "FAI", "ReadState", "BestBody"}, {"Eid", "MessageSize", "Cn"}, <<NAMED_LID>>),
      SyncRequest("Contents", {}, {"Normal", "OnlySpecifiedProperties"}, {"Cn"}, <<NAMED_UNKNOWN, PR_MID, NAMED_UNKNOWN>>),
      SyncRequest("Hierarchy", {}, {"FAI", "ReadState", "NoForeignIdentifiers"}, {"Eid"}, <<PR_DISPLAY_NAME_UNICODE>>),
      SyncRequest("Contents", {"Unicode"}, {"Normal"}, {}, <<>>) }

\* BufferSize and MaximumBufferSize of a GetBuffer request
BufferRequests == { <<32768, 0>> }

\* the requests made of the chunker on the large streams
ChunkRequests == { <<16, 0>>, <<4096, 0>>, <<BABE, 8192>>, <<32768, 0>>, <<0, 0>>, <<BABE, 0>> }

\* what line 1137 may read for the position: no flag of the request set,
\* or a value above every uint16_t
PunnedPositions == {0, UINT16_MOD}

StateProperties == {"PidTagIdsetGiven", "PidTagCnsetSeen", "PidTagCnsetSeenFAI", "PidTagCnsetRead"}

\* pieces of serialized idsets sent by SyncUploadStateStreamContinue
StreamDatas == { <<1, GLOBSET_RANGE, 0, 1, 0, 3, GLOBSET_END>>, <<1, GLOBSET_RANGE, 0, 1>>, <<0, 2, GLOBSET_END>> }

\* one of the sessions that call GetLocalReplicaIds: its handle table, the
\* position of its handler (before or after the reservation), the locals
\* new_id and IdCount of the handler, its last reply
NewSession == [handles |-> {"folder"}, pc |-> "idle", new_id |-> Fmid(0, 0, 0), IdCount |-> 0,
               reply |-> ErrorReply("none", "none", "MAPI_E_SUCCESS")]

\* mapi_handles_search and the type of the object of the handle
TypeOf(h) == IF h \in handles THEN h ELSE "none"

InitOn(stores) ==
    /\ store \in stores
    /\ handles = {"folder"}
    /\ ftcontext = NewFtContext
    /\ synccontext = NewSyncContext
    /\ reply = ErrorReply("none", "none", "MAPI_E_SUCCESS")
    /\ chunks = [h \in {"ftcontext", "synccontext"} |-> NoChunks]
    /\ walk = NoWalk
    /\ aborted = FALSE
    /\ sessions = [s \in 1..MaxSessions |-> NewSession]

Init == InitOn(Stores)

ChunkInit == InitOn(ChunkStores)

\* SPropTagArray_delete(mem_ctx, needed_properties, tag)
RECURSIVE SPropTagArray_delete(_, _)
SPropTagArray_delete(properties, tag) ==
    IF properties = <<>> THEN <<>>
    ELSE IF Head(properties) = tag THEN SPropTagArray_delete(Tail(properties), tag)
    ELSE <<Head(properties)>> \o SPropTagArray_delete(Tail(properties), tag)

RECURSIVE DeleteAll(_, _)
DeleteAll(properties, tags) == IF tags = <<>> THEN properties ELSE DeleteAll(SPropTagArray_delete(properties, Head(tags)), Tail(tags))

\* the stream of a CopyTo: lines 373-409
CopyToStream(st, PropertyTags) ==
    LET needed_properties == DeleteAll(st.folder.available, PropertyTags)
        row == emsmdbp_object_table_get_row_props(st.folder, needed_properties)
        pushed == PushRemaining(NewSyncData, st, needed_properties, row, 0)
    IN  [pushed EXCEPT !.cutmarks = Append(@, CUTMARK_END)]

EcDoRpc_RopFastTransferSourceCopyTo(h, Level, PropertyTags) ==
    /\ ~aborted
    /\ "synccontext" \notin handles
    /\ IF TypeOf(h) # "folder" \/ Level > 0
       THEN /\ reply' = ErrorReply("CopyTo", h, "MAPI_E_INVALID_OBJECT")
            /\ UNCHANGED <<sessions, store, handles, ftcontext, synccontext, chunks, walk, aborted>>
       ELSE IF ~store.folder.available_ok \/ store.folder.available = <<>>
            THEN /\ reply' = ErrorReply("CopyTo", h, "MAPI_E_SUCCESS")
                 /\ UNCHANGED <<sessions, store, handles, ftcontext, synccontext, chunks, walk, aborted>>
            ELSE IF ~store.folder.props_ok
                 THEN /\ reply' = ErrorReply("CopyTo", h, "MAPI_E_INVALID_OBJECT")
                      /\ UNCHANGED <<sessions, store, handles, ftcontext, synccontext, chunks, walk, aborted>>
                 ELSE LET sd == CopyToStream(store, PropertyTags)
                      IN  IF sd.aborted
                          THEN /\ aborted' = TRUE
                               /\ UNCHANGED <<sessions, store, handles, ftcontext, synccontext, reply, chunks, walk>>
                          ELSE /\ ftcontext' = [NewFtContext EXCEPT !.cutmarks = sd.cutmarks,
                                                                    !.stream = [null |-> FALSE, data |-> sd.ndr, length |-> sd.offset, position |-> 0]]
                               /\ handles' = handles \cup {"ftcontext"}
                               /\ chunks' = [chunks EXCEPT !["ftcontext"] = NoChunks]
                               /\ reply' = ErrorReply("CopyTo", h, "MAPI_E_SUCCESS")
                               /\ UNCHANGED <<sessions, store, synccontext, walk, aborted>>

\* lines 1239-1270: the request kept in the context
ConfiguredRequest(request) ==
    [contents_mode |-> request.SynchronizationType = "Contents",
     unicode |-> "Unicode" \in request.SendOptions,
     read_state |-> "ReadState" \in request.SynchronizationFlag,
     fai |-> "FAI" \in request.SynchronizationFlag,
     normal |-> "Normal" \in request.SynchronizationFlag,
     no_foreign_identifiers |-> "NoForeignIdentifiers" \in request.SynchronizationFlag,
     best_body |-> "BestBody" \in request.SynchronizationFlag,
     request_eid |-> "Eid" \in request.SynchronizationExtraFlags,
     request_message_size |-> "MessageSize" \in request.SynchronizationExtraFlags,
     request_cn |-> "Cn" \in request.SynchronizationExtraFlags]

\* lines 1278-1290
Anchors(contents_mode) ==
    (IF contents_mode THEN <<PR_MID, PR_ASSOCIATED, PR_MESSAGE_SIZE, PR_CHANGE_NUM>> ELSE <<PR_PARENT_FID, PR_FID>>)
    \o <<PR_CHANGE_KEY, PR_LAST_MODIFICATION_TIME, PR_DISPLAY_NAME_UNICODE>>

\* lines 1297-1305
ExplicitExclusions == {"PR_ROW_TYPE", "PR_INSTANCE_KEY", "PR_INSTANCE_NUM", "PR_INST_ID", "PR_FID", "PR_MID", "PR_SOURCE_KEY", "PR_PARENT_SOURCE_KEY", "PR_PARENT_FID"}

\* a loop that adds every tag that is not excluded and excludes none
RECURSIVE AddTagsUnmarked(_, _, _)
AddTagsUnmarked(acc, tags, add) ==
    IF tags = <<>>
    THEN acc
    ELSE IF Head(tags).id \in acc.exclusion
         THEN AddTagsUnmarked(acc, Tail(tags), add)
         ELSE AddTagsUnmarked([acc EXCEPT !.properties = IF add THEN Append(@, Head(tags)) ELSE @], Tail(tags), add)

\* the loops of lines 1309-1317 and 1335-1341 over an array of tags;
\* acc is the properties array with properties_exclusion
RECURSIVE AddTags(_, _, _)
AddTags(acc, tags, add) ==
    IF tags = <<>>
    THEN acc
    ELSE IF Head(tags).id \in acc.exclusion
         THEN AddTags(acc, Tail(tags), add)
         ELSE AddTags([properties |-> IF add THEN Append(acc.properties, Head(tags)) ELSE acc.properties,
                       exclusion |-> acc.exclusion \cup {Head(tags).id}], Tail(tags), add)

AddAvailable(acc, table) == IF table.available_ok THEN AddTags(acc, table.available, TRUE) ELSE acc

\* the tables opened by lines 1326-1387
TablesOf(st, request) ==
    IF request.SynchronizationType = "Contents"
    THEN (IF "Normal" \in request.SynchronizationFlag THEN <<st.folder.messages>> ELSE <<>>)
         \o (IF "FAI" \in request.SynchronizationFlag THEN <<st.folder.fai>> ELSE <<>>)
    ELSE <<st.folder.folders>>

RECURSIVE AddTables(_, _)
AddTables(acc, tables) == IF tables = <<>> THEN acc ELSE AddTables(AddAvailable(acc, Head(tables)), Tail(tables))

\* lines 1272-1388: the properties array of the context
ConfiguredProperties(st, request) ==
    LET include_props == "OnlySpecifiedProperties" \in request.SynchronizationFlag
        anchors == Anchors(request.SynchronizationType = "Contents")
        start == [properties |-> anchors, exclusion |-> { anchors[i].id : i \in 1..Len(anchors) } \cup ExplicitExclusions]
        passed == AddTags(start, request.PropertyTags, include_props)
        best == IF ~include_props /\ "BestBody" \in request.SynchronizationFlag
                THEN [passed EXCEPT !.exclusion = @ \ {PR_BODY_HTML.id, PR_BODY_UNICODE.id}]
                ELSE passed
    IN  IF include_props THEN best.properties ELSE AddTables(best, TablesOf(st, request)).properties

EcDoRpc_RopSyncConfigure(h, request) ==
    /\ ~aborted
    /\ "ftcontext" \notin handles
    /\ IF TypeOf(h) # "folder"
       THEN /\ reply' = ErrorReply("SyncConfigure", h, "MAPI_E_INVALID_OBJECT")
            /\ UNCHANGED <<sessions, store, handles, ftcontext, synccontext, chunks, walk, aborted>>
       ELSE IF "Unicode" \in request.SendOptions /\ "Unicode" \notin request.SynchronizationFlag
            THEN /\ reply' = ErrorReply("SyncConfigure", h, "MAPI_E_INVALID_PARAMETER")
                 /\ UNCHANGED <<sessions, store, handles, ftcontext, synccontext, chunks, walk, aborted>>
            ELSE IF "OnlySpecifiedProperties" \notin request.SynchronizationFlag
                    /\ \E i \in 1..Len(TablesOf(store, request)) : TablesOf(store, request)[i].null
                 THEN /\ aborted' = TRUE
                      /\ UNCHANGED <<sessions, store, handles, ftcontext, synccontext, reply, chunks, walk>>
                 ELSE /\ synccontext' = [NewSyncContext EXCEPT !.request = ConfiguredRequest(request),
                                                               !.properties = ConfiguredProperties(store, request)]
                      /\ handles' = handles \cup {"synccontext"}
                      /\ chunks' = [chunks EXCEPT !["synccontext"] = NoChunks]
                      /\ walk' = NoWalk
                      /\ reply' = ErrorReply("SyncConfigure", h, "MAPI_E_SUCCESS")
                      /\ UNCHANGED <<sessions, store, ftcontext, aborted>>

\* what a GetBuffer adds to the account of the chunks of a context
Chunked(c, r) ==
    [count |-> c.count + 1, ends |-> Append(c.ends, r.start + r.TransferBufferSize),
     first |-> IF c.count = 0 THEN r.buffer_size ELSE c.first, sizes |-> c.sizes \cup {r.buffer_size},
     done |-> r.TransferStatus = "TransferStatus_Done"]

\* a GetBuffer that takes every stream for missing
StreamAlwaysMissing(sc) == TRUE

\* line 1115: the test of synccontext->stream.buffer.data
StreamMissing(sc) == sc.stream.null

\* lines 1024-1166.  The divisions of lines 1083 and 1124 by a buffer_size
\* of 0 either trap, which ends the server, or give a quotient
EcDoRpc_RopFastTransferSourceGetBuffer(h, BufferSize, MaximumBufferSize) ==
    /\ ~aborted
    /\ LET buffer_size == EffectiveBufferSize(BufferSize, MaximumBufferSize)
       IN  CASE TypeOf(h) = "ftcontext" ->
                  /\ chunks[h].count < MaxCalls
                  /\ \/ /\ ftcontext.stream.position = 0 /\ buffer_size = 0
                        /\ aborted' = TRUE
                        /\ UNCHANGED <<sessions, store, handles, ftcontext, synccontext, reply, chunks, walk>>
                     \/ LET after == FtGetBuffer(ftcontext, buffer_size)
                            r == GetBufferReply(ftcontext, after, <<BufferSize, MaximumBufferSize>>, buffer_size, h)
                        IN  /\ ftcontext' = after
                            /\ reply' = r
                            /\ chunks' = [chunks EXCEPT ![h] = Chunked(@, r)]
                            /\ UNCHANGED <<sessions, store, handles, synccontext, walk, aborted>>
             [] TypeOf(h) = "synccontext" ->
                  /\ chunks[h].count < MaxCalls
                  /\ \E trapped \in BOOLEAN :
                     LET fresh == StreamMissing(synccontext)
                         prepared == IF ~fresh
                                     THEN [aborted |-> FALSE, synccontext |-> synccontext, sync_data |-> NewSyncData]
                                     ELSE IF synccontext.request.contents_mode
                                          THEN oxcfxics_prepare_synccontext_with_messageChange(store, synccontext)
                                          ELSE oxcfxics_prepare_synccontext_with_folderChange(store, synccontext)
                     IN  IF prepared.aborted \/ (fresh /\ buffer_size = 0 /\ trapped)
                         THEN /\ aborted' = TRUE
                              /\ UNCHANGED <<sessions, store, handles, ftcontext, synccontext, reply, chunks, walk>>
                         ELSE \E tested \in PunnedPositions :
                                LET after == SyncGetBuffer(prepared.synccontext, fresh, tested, buffer_size)
                                    r == GetBufferReply(prepared.synccontext, after, <<BufferSize, MaximumBufferSize>>, buffer_size, h)
                                IN  /\ synccontext' = after
                                    /\ reply' = r
                                    /\ chunks' = [chunks EXCEPT ![h] = Chunked(@, r)]
                                    /\ walk' = IF fresh
                                               THEN [walk EXCEPT !.builds = @ + 1, !.before = <<synccontext.idset_given, synccontext.cnset_seen>>,
                                                                 !.eid_set = prepared.sync_data.eid_set, !.cnset_seen = prepared.sync_data.cnset_seen]
                                               ELSE walk
                                    /\ UNCHANGED <<sessions, store, handles, ftcontext, aborted>>
             [] OTHER ->
                  /\ reply' = ErrorReply("GetBuffer", h, "MAPI_E_INVALID_OBJECT")
                  /\ UNCHANGED <<sessions, store, handles, ftcontext, synccontext, chunks, walk, aborted>>

\* emsmdbp_stream_write_buffer(mem_ctx, stream, new_data): the data is
\* appended to the stream (not part of these sources)
emsmdbp_stream_write_buffer(stream, new_data) == stream \o new_data

\* a Begin without the test of line 1802
BeginWithoutIdleTest(h, StateProperty) ==
    /\ ~aborted
    /\ walk.uploads < MaxUploads
    /\ synccontext' = [synccontext EXCEPT !.state_property = StateProperty, !.state_stream = <<>>]
    /\ walk' = [walk EXCEPT !.uploads = @ + 1, !.fed = <<>>]
    /\ reply' = ErrorReply("UploadStateStreamBegin", h, "MAPI_E_SUCCESS")
    /\ UNCHANGED <<sessions, store, handles, ftcontext, chunks, aborted>>

EcDoRpc_RopSyncUploadStateStreamBegin(h, StateProperty) ==
    /\ ~aborted
    /\ walk.uploads < MaxUploads
    /\ IF TypeOf(h) # "synccontext"
       THEN /\ reply' = ErrorReply("UploadStateStreamBegin", h, "MAPI_E_INVALID_OBJECT")
            /\ UNCHANGED <<sessions, store, handles, ftcontext, synccontext, chunks, walk, aborted>>
       ELSE IF synccontext.state_property # "0"
            THEN /\ reply' = ErrorReply("UploadStateStreamBegin", h, "MAPI_E_NOT_INITIALIZED")
                 /\ UNCHANGED <<sessions, store, handles, ftcontext, synccontext, chunks, walk, aborted>>
            ELSE IF StateProperty \notin StateProperties
                 THEN /\ reply' = ErrorReply("UploadStateStreamBegin", h, "MAPI_E_INVALID_PARAMETER")
                      /\ UNCHANGED <<sessions, store, handles, ftcontext, synccontext, chunks, walk, aborted>>
                 ELSE /\ synccontext' = [synccontext EXCEPT !.state_property = StateProperty, !.state_stream = <<>>]
                      /\ walk' = [walk EXCEPT !.uploads = @ + 1, !.fed = <<>>]
                      /\ reply' = ErrorReply("UploadStateStreamBegin", h, "MAPI_E_SUCCESS")
                      /\ UNCHANGED <<sessions, store, handles, ftcontext, chunks, aborted>>

\* a Continue that keeps only its own payload
ContinueOverwrites(h, StreamData) ==
    /\ ~aborted
    /\ Len(synccontext.state_stream) + Len(StreamData) <= MaxScratch
    /\ synccontext' = [synccontext EXCEPT !.state_stream = StreamData]
    /\ walk' = [walk EXCEPT !.fed = Append(@, StreamData)]
    /\ reply' = ErrorReply("UploadStateStreamContinue", h, "MAPI_E_SUCCESS")
    /\ UNCHANGED <<sessions, store, handles, ftcontext, chunks, aborted>>

\* a Continue that writes to the scratch buffer of the SyncContext of the
\* session whatever handle it is given
ContinueOnAnyHandle(h, StreamData) ==
    /\ ~aborted
    /\ Len(synccontext.state_stream) + Len(StreamData) <= MaxScratch
    /\ IF synccontext.state_property = "0"
       THEN /\ reply' = ErrorReply("UploadStateStreamContinue", h, "MAPI_E_NOT_INITIALIZED")
            /\ UNCHANGED <<sessions, store, handles, ftcontext, synccontext, chunks, walk, aborted>>
       ELSE /\ synccontext' = [synccontext EXCEPT !.state_stream = emsmdbp_stream_write_buffer(@, StreamData)]
            /\ walk' = [walk EXCEPT !.fed = Append(@, StreamData)]
            /\ reply' = ErrorReply("UploadStateStreamContinue", h, "MAPI_E_SUCCESS")
            /\ UNCHANGED <<sessions, store, handles, ftcontext, chunks, aborted>>

EcDoRpc_RopSyncUploadStateStreamContinue(h, StreamData) ==
    /\ ~aborted
    /\ Len(synccontext.state_stream) + Len(StreamData) <= MaxScratch
    /\ IF TypeOf(h) # "synccontext"
       THEN /\ reply' = ErrorReply("UploadStateStreamContinue", h, "MAPI_E_INVALID_OBJECT")
            /\ UNCHANGED <<sessions, store, handles, ftcontext, synccontext, chunks, walk, aborted>>
       ELSE IF synccontext.state_property = "0"
            THEN /\ reply' = ErrorReply("UploadStateStreamContinue", h, "MAPI_E_NOT_INITIALIZED")
                 /\ UNCHANGED <<sessions, store, handles, ftcontext, synccontext, chunks, walk, aborted>>
            ELSE /\ synccontext' = [synccontext EXCEPT !.state_stream = emsmdbp_stream_write_buffer(@, StreamData)]
                 /\ walk' = [walk EXCEPT !.fed = Append(@, StreamData)]
                 /\ reply' = ErrorReply("UploadStateStreamContinue", h, "MAPI_E_SUCCESS")
                 /\ UNCHANGED <<sessions, store, handles, ftcontext, chunks, aborted>>

\* the parsed set installed as idset_given whatever the pending property
UploadedStateAsGiven(sc, parsed_idset) ==
    [sc EXCEPT !.idset_given = parsed_idset, !.state_stream = <<>>, !.state_property = "0"]

\* lines 1963-1997: the context after the scratch buffer has been parsed
UploadedState(sc, parsed_idset) ==
    LET installed == IF sc.state_property = "PidTagIdsetGiven"
                     THEN [sc EXCEPT !.idset_given = parsed_idset]
                     ELSE [sc EXCEPT !.cnset_seen = IF parsed_idset.null THEN parsed_idset ELSE [parsed_idset EXCEPT !.single = TRUE]]
    IN  [installed EXCEPT !.state_stream = <<>>, !.state_property = "0"]

\* an End that does not look its handle up
EndOnAnyHandle(h) ==
    /\ ~aborted
    /\ IF synccontext.state_property = "0"
       THEN /\ reply' = ErrorReply("UploadStateStreamEnd", h, "MAPI_E_NOT_INITIALIZED")
            /\ UNCHANGED <<sessions, store, handles, ftcontext, synccontext, chunks, walk, aborted>>
       ELSE /\ synccontext' = UploadedState(synccontext, IDSET_parse(synccontext.state_stream))
            /\ walk' = [walk EXCEPT !.fed = <<>>]
            /\ reply' = ErrorReply("UploadStateStreamEnd", h, "MAPI_E_SUCCESS")
            /\ UNCHANGED <<sessions, store, handles, ftcontext, chunks, aborted>>

EcDoRpc_RopSyncUploadStateStreamEnd(h) ==
    /\ ~aborted
    /\ IF TypeOf(h) # "synccontext"
       THEN /\ reply' = ErrorReply("UploadStateStreamEnd", h, "MAPI_E_INVALID_OBJECT")
            /\ UNCHANGED <<sessions, store, handles, ftcontext, synccontext, chunks, walk, aborted>>
       ELSE IF synccontext.state_property = "0"
            THEN /\ reply' = ErrorReply("UploadStateStreamEnd", h, "MAPI_E_NOT_INITIALIZED")
                 /\ UNCHANGED <<sessions, store, handles, ftcontext, synccontext, chunks, walk, aborted>>
            ELSE LET parsed_idset == IDSET_parse(synccontext.state_stream)
                 IN  IF synccontext.state_property = "PidTagIdsetGiven" /\ ~parsed_idset.null /\ parsed_idset.ids = {}
                     THEN /\ aborted' = TRUE
                          /\ UNCHANGED <<sessions, store, handles, ftcontext, synccontext, reply, chunks, walk>>
                     ELSE /\ synccontext' = UploadedState(synccontext, parsed_idset)
                          /\ walk' = [walk EXCEPT !.fed = <<>>]
                          /\ reply' = ErrorReply("UploadStateStreamEnd", h, "MAPI_E_SUCCESS")
                          /\ UNCHANGED <<sessions, store, handles, ftcontext, chunks, aborted>>

\* the folders below a folder table: id and parent id of each
RECURSIVE FolderIds(_)
FolderIds(table) ==
    IF table.null THEN {}
    ELSE UNION { {[fmid |-> table.rows[i].props["PR_FID"][1], parent |-> table.rows[i].props["PR_PARENT_FID"][1]]}
                 \cup FolderIds(table.rows[i].folders) : i \in 1..Len(table.rows) }

KnownFolders(st) == FolderIds(st.folder.folders) \cup { [fmid |-> c.fmid, parent |-> c.parent] : c \in { x \in st.created : x.kind = "folder" } }

\* emsmdbp_object_open_folder_by_fid(...): NULL (FALSE) when the store holds
\* no folder of that id
emsmdbp_object_open_folder_by_fid(st, fid) == fid = st.folder.folderID \/ \E f \in KnownFolders(st) : f.fmid = fid

\* emsmdbp_object_open_folder(mem_ctx, emsmdbp_ctx, parent, fid): NULL
\* (FALSE) when the parent is NULL or holds no such folder
emsmdbp_object_open_folder(st, parent_folder, parentFolderID, folderID) ==
    parent_folder /\ [fmid |-> folderID, parent |-> parentFolderID] \in KnownFolders(st)

\* emsmdbp_object_create_folder(emsmdbp_ctx, parent_folder, mem_ctx, fid, rowp, new_folderp)
emsmdbp_object_create_folder(st, parent_folder, parentFolderID, folderID, aRow) ==
    LET asked == Requested(st, Request("create_folder", folderID, parentFolderID, "", aRow))
    IN  IF ~parent_folder \/ st.read_only THEN [retval |-> "MAPI_E_NOT_FOUND", store |-> asked]
        ELSE [retval |-> "MAPI_E_SUCCESS",
              store |-> [asked EXCEPT !.created = @ \cup {[kind |-> "folder", fmid |-> folderID, parent |-> parentFolderID, arg |-> ""]}]]

\* emsmdbp_object_set_properties(emsmdbp_ctx, object, rowp)
emsmdbp_object_set_properties(st, parentFolderID, folderID, aRow) ==
    LET asked == Requested(st, Request("set_properties", folderID, parentFolderID, "", aRow))
    IN  IF st.read_only THEN [retval |-> "MAPI_E_NO_SUPPORT", store |-> asked]
        ELSE [retval |-> "MAPI_E_SUCCESS", store |-> [asked EXCEPT !.written = @ \cup {[fmid |-> folderID, row |-> aRow]}]]

\* lines 1588-1623: the row of all supplied values, the parent, the folder
\* opened or created, the properties set
ImportFolder(h, parentFolderID, folderID, aRow) ==
    LET at_top == store.folder.folderID = parentFolderID
        parent_folder == at_top \/ emsmdbp_object_open_folder_by_fid(store, parentFolderID)
        found == IF at_top THEN Served(store)
                 ELSE Requested(Served(store), Request("open_folder_by_fid", parentFolderID, NoId, "", <<>>))
        asked == Requested(found, Request("open_folder", folderID, parentFolderID, "", <<>>))
        folder_object == emsmdbp_object_open_folder(store, parent_folder, parentFolderID, folderID)
        create == emsmdbp_object_create_folder(asked, parent_folder, parentFolderID, folderID, aRow)
        set == emsmdbp_object_set_properties(IF folder_object THEN asked ELSE create.store, parentFolderID, folderID, aRow)
    IN  IF ~folder_object /\ create.retval # "MAPI_E_SUCCESS"
        THEN /\ store' = create.store
             /\ reply' = ErrorReply("SyncImportHierarchyChange", h, "MAPI_E_NO_SUPPORT")
        ELSE IF set.retval # "MAPI_E_SUCCESS"
             THEN /\ store' = set.store
                  /\ reply' = ErrorReply("SyncImportHierarchyChange", h, "MAPI_E_NO_SUPPORT")
             ELSE /\ store' = set.store
                  /\ reply' = ErrorReply("SyncImportHierarchyChange", h, "MAPI_E_SUCCESS") @@ [FolderId |-> 0]

EcDoRpc_RopSyncImportHierarchyChange(h, HierarchyValues, PropertyValues) ==
    /\ ~aborted
    /\ store.imports < MaxImports
    /\ IF TypeOf(h) # "synccontext"
       THEN /\ reply' = ErrorReply("SyncImportHierarchyChange", h, "MAPI_E_INVALID_OBJECT")
            /\ UNCHANGED <<sessions, store, handles, ftcontext, synccontext, chunks, walk, aborted>>
       ELSE IF \/ oxcfxics_fmid_from_source_key(store, HierarchyValues[1].value).error
               \/ oxcfxics_fmid_from_source_key(store, HierarchyValues[2].value).error
            THEN /\ reply' = ErrorReply("SyncImportHierarchyChange", h, "MAPI_E_NOT_FOUND")
                 /\ UNCHANGED <<sessions, store, handles, ftcontext, synccontext, chunks, walk, aborted>>
            ELSE /\ ImportFolder(h, oxcfxics_fmid_from_source_key(store, HierarchyValues[1].value).fmid,
                                 oxcfxics_fmid_from_source_key(store, HierarchyValues[2].value).fmid,
                                 HierarchyValues \o PropertyValues)
                 /\ UNCHANGED <<sessions, handles, ftcontext, synccontext, chunks, walk, aborted>>

\* the rows of a table without the message
WithoutRow(table, messageID) ==
    IF table.null THEN table
    ELSE [table EXCEPT !.rows = SelectSeq(@, LAMBDA row : row.props["PR_MID"][1] # messageID)]

\* mapistore_folder_delete_message(mstore_ctx, context_id, folder, mid, flags):
\* fails when the folder does not hold the message
mapistore_folder_delete_message(st, messageID, delete_type) ==
    LET asked == Requested(st, Request("delete_message", messageID, st.folder.folderID, delete_type, <<>>))
    IN  IF st.read_only \/ ~emsmdbp_object_message_open(st, st.folder.folderID, messageID) THEN asked
        ELSE [asked EXCEPT !.folder.messages = WithoutRow(@, messageID), !.folder.fai = WithoutRow(@, messageID),
                           !.created = { c \in @ : c.kind # "message" \/ c.fmid # messageID }]

\* mapistore_indexing_record_del_mid(mstore_ctx, context_id, mid, flags)
mapistore_indexing_record_del_mid(st, messageID, delete_type) ==
    Requested(st, Request("record_del_mid", messageID, NoId, delete_type, <<>>))

\* a loop that stops at the first entry that does not resolve
RECURSIVE DeleteUntilUnresolved(_, _, _)
DeleteUntilUnresolved(st, object_array, delete_type) ==
    IF object_array = <<>> \/ oxcfxics_fmid_from_source_key(st, Head(object_array)).error THEN st
    ELSE DeleteUntilUnresolved(mapistore_indexing_record_del_mid(mapistore_folder_delete_message(st, oxcfxics_fmid_from_source_key(st, Head(object_array)).fmid, delete_type),
                                                                 oxcfxics_fmid_from_source_key(st, Head(object_array)).fmid, delete_type),
                               Tail(object_array), delete_type)

\* lines 1725-1738: the loop over the binary array
RECURSIVE DeleteObjects(_, _, _)
DeleteObjects(st, object_array, delete_type) ==
    IF object_array = <<>> THEN st
    ELSE IF oxcfxics_fmid_from_source_key(st, Head(object_array)).error
         THEN DeleteObjects(st, Tail(object_array), delete_type)
         ELSE DeleteObjects(mapistore_indexing_record_del_mid(mapistore_folder_delete_message(st, oxcfxics_fmid_from_source_key(st, Head(object_array)).fmid, delete_type),
                                                              oxcfxics_fmid_from_source_key(st, Head(object_array)).fmid, delete_type),
                            Tail(object_array), delete_type)

EcDoRpc_RopSyncImportDeletes(h, Flags, PropertyValues) ==
    /\ ~aborted
    /\ store.imports < MaxImports
    /\ IF TypeOf(h) # "synccontext" \/ "Hierarchy" \in Flags \/ ~emsmdbp_is_mapistore(store)
       THEN /\ reply' = ErrorReply("SyncImportDeletes", h, "MAPI_E_INVALID_OBJECT")
            /\ UNCHANGED <<sessions, store, handles, ftcontext, synccontext, chunks, walk, aborted>>
       ELSE /\ store' = DeleteObjects(Served(store), PropertyValues[1].value,
                                      IF "HardDelete" \in Flags THEN "MAPISTORE_PERMANENT_DELETE" ELSE "MAPISTORE_SOFT_DELETE")
            /\ reply' = ErrorReply("SyncImportDeletes", h, "MAPI_E_SUCCESS")
            /\ UNCHANGED <<sessions, handles, ftcontext, synccontext, chunks, walk, aborted>>

\* the ids mapi_handles_add gives to the handles of imported messages
MessageHandles == <<"message1", "message2", "message3", "message4">>

NewHandle(hs) == MessageHandles[1 + Cardinality(hs \cap SeqRange(MessageHandles))]

\* the reply of a ROP that has written a handle into handles[handle_idx]
HandleReply(op, handle, error_code, slot) == [op |-> op, handle |-> handle, error_code |-> error_code, slot |-> slot]

\* the flag of the created message when ImportFlag is not looked at
NeverAssociated(ImportFlag) == "normal"

\* (request->ImportFlag & ImportFlag_Associated)
Associated(ImportFlag) == IF "Associated" \in ImportFlag THEN "associated" ELSE "normal"

\* lines 1481-1500: the message is opened, or created when it cannot be
ImportMessage(h, messageID, ImportFlag) ==
    LET folderID == store.folder.folderID
        message_handle == NewHandle(handles)
        asked == Requested(Served(store), Request("open_message", messageID, folderID, "", <<>>))
        create == mapistore_folder_create_message(asked, folderID, messageID, Associated(ImportFlag))
    IN  IF emsmdbp_object_message_open(store, folderID, messageID)
        THEN /\ store' = asked
             /\ handles' = handles \cup {message_handle}
             /\ reply' = HandleReply("SyncImportMessageChange", h, "MAPI_E_SUCCESS", message_handle) @@ [MessageId |-> 0]
        ELSE IF create.retval # "MAPISTORE_SUCCESS"
             THEN /\ store' = create.store
                  /\ handles' = handles
                  /\ reply' = HandleReply("SyncImportMessageChange", h, "MAPI_E_NOT_FOUND", message_handle)
             ELSE /\ store' = create.store
                  /\ handles' = handles \cup {message_handle}
                  /\ reply' = HandleReply("SyncImportMessageChange", h, "MAPI_E_SUCCESS", message_handle) @@ [MessageId |-> 0]

EcDoRpc_RopSyncImportMessageChange(h, PropertyValues, ImportFlag) ==
    /\ ~aborted
    /\ store.imports < MaxImports
    /\ IF TypeOf(h) # "synccontext"
       THEN /\ reply' = ErrorReply("SyncImportMessageChange", h, "MAPI_E_INVALID_OBJECT")
            /\ UNCHANGED <<sessions, store, handles, ftcontext, synccontext, chunks, walk, aborted>>
       ELSE IF ~emsmdbp_is_mapistore(store)
            THEN /\ reply' = ErrorReply("SyncImportMessageChange", h, "MAPI_E_NO_SUPPORT")
                 /\ UNCHANGED <<sessions, store, handles, ftcontext, synccontext, chunks, walk, aborted>>
            ELSE IF oxcfxics_fmid_from_source_key(store, PropertyValues[1].value).error
                 THEN /\ reply' = ErrorReply("SyncImportMessageChange", h, "MAPI_E_NOT_FOUND")
                      /\ UNCHANGED <<sessions, store, handles, ftcontext, synccontext, chunks, walk, aborted>>
                 ELSE /\ ImportMessage(h, oxcfxics_fmid_from_source_key(store, PropertyValues[1].value).fmid, ImportFlag)
                      /\ UNCHANGED <<sessions, ftcontext, synccontext, chunks, walk, aborted>>

\* openchangedb_reserve_fmid_range(oc_ctx, range_len, first_fmidp): the
\* allocator of the store, one atomic step of the store (section 5);
\* reserved lists the blocks in the order they were given
openchangedb_reserve_fmid_range(st, s, range_len) ==
    [first_fmid |-> Fmid(1, 0, st.GlobalCount),
     store |-> [st EXCEPT !.GlobalCount = @ + range_len, !.reserved = Append(@, [session |-> s, start |-> st.GlobalCount, count |-> range_len])]]

\* a handler that reads the counter of the store and leaves it where it is
GetLocalReplicaIdsUnreserved(s, h, IdCount) ==
    /\ sessions[s].pc = "idle"
    /\ Len(store.reserved) < MaxReservations
    /\ store' = [store EXCEPT !.reserved = Append(@, [session |-> s, start |-> store.GlobalCount, count |-> IdCount])]
    /\ sessions' = [sessions EXCEPT ![s].pc = "reserved", ![s].IdCount = IdCount, ![s].new_id = Fmid(1, 0, store.GlobalCount),
                                     ![s].reply = ErrorReply("GetLocalReplicaIds", h, "MAPI_E_SUCCESS")]
    /\ UNCHANGED <<handles, ftcontext, synccontext, reply, chunks, walk, aborted>>

\* lines 2162-2177 for session s: the handle is looked up and the range
\* reserved
EcDoRpc_RopGetLocalReplicaIds(s, h, IdCount) ==
    /\ sessions[s].pc = "idle"
    /\ Len(store.reserved) < MaxReservations
    /\ IF h \notin sessions[s].handles
       THEN /\ sessions' = [sessions EXCEPT ![s].reply = ErrorReply("GetLocalReplicaIds", h, "MAPI_E_INVALID_OBJECT")]
            /\ UNCHANGED <<store, handles, ftcontext, synccontext, reply, chunks, walk, aborted>>
       ELSE /\ store' = openchangedb_reserve_fmid_range(store, s, IdCount).store
            /\ sessions' = [sessions EXCEPT ![s].pc = "reserved", ![s].IdCount = IdCount,
                                             ![s].new_id = openchangedb_reserve_fmid_range(store, s, IdCount).first_fmid,
                                             ![s].reply = ErrorReply("GetLocalReplicaIds", h, "MAPI_E_SUCCESS")]
            /\ UNCHANGED <<handles, ftcontext, synccontext, reply, chunks, walk, aborted>>

\* lines 2176 and 2178-2187 for session s: the GUID of replica 1 and the
\* six bytes of new_id >> 16 go into the reply
GetLocalReplicaIdsReply(s) ==
    /\ sessions[s].pc = "reserved"
    /\ sessions' = [sessions EXCEPT ![s].pc = "idle",
                                     ![s].reply = @ @@ [ReplGuid |-> store.replids[1],
                                                        GlobalCount |-> [i \in 1..6 |-> IdByte(<<sessions[s].new_id.hi, sessions[s].new_id.lo>>, i - 1)]]]
    /\ UNCHANGED <<store, handles, ftcontext, synccontext, reply, chunks, walk, aborted>>

\* a SyncImportMessageMove that looks its handle up
MessageMoveOnSyncContext(h) ==
    /\ ~aborted
    /\ reply' = IF TypeOf(h) # "synccontext"
                THEN ErrorReply("SyncImportMessageMove", h, "MAPI_E_INVALID_OBJECT")
                ELSE HandleReply("SyncImportMessageMove", h, "MAPI_E_SUCCESS", h) @@ [MessageId |-> 0]
    /\ UNCHANGED <<sessions, store, handles, ftcontext, synccontext, chunks, walk, aborted>>

\* EcDoRpc_RopSyncImportMessageMove (0x78): a stub
EcDoRpc_RopSyncImportMessageMove(h) ==
    /\ ~aborted
    /\ reply' = HandleReply("SyncImportMessageMove", h, "MAPI_E_SUCCESS", h) @@ [MessageId |-> 0]
    /\ UNCHANGED <<sessions, store, handles, ftcontext, synccontext, chunks, walk, aborted>>

\* EcDoRpc_RopSyncImportReadStateChanges (0x80): a stub
EcDoRpc_RopSyncImportReadStateChanges(h) ==
    /\ ~aborted
    /\ reply' = HandleReply("SyncImportReadStateChanges", h, "MAPI_E_SUCCESS", h)
    /\ UNCHANGED <<sessions, store, handles, ftcontext, synccontext, chunks, walk, aborted>>

\* EcDoRpc_RopSetLocalReplicaMidsetDeleted (0x93): a stub
EcDoRpc_RopSetLocalReplicaMidsetDeleted(h) ==
    /\ ~aborted
    /\ reply' = HandleReply("SetLocalReplicaMidsetDeleted", h, "MAPI_E_SUCCESS", h)
    /\ UNCHANGED <<sessions, store, handles, ftcontext, synccontext, chunks, walk, aborted>>

\* lines 2246-2273: the number of rows the folder reports for a table
\* (PR_FOLDER_CHILD_COUNT, PR_CONTENT_COUNT, PR_ASSOC_CONTENT_COUNT); a
\* folder reports no row for a table it does not have
RowCount(table) == IF table.null THEN 0 ELSE Len(table.rows)

\* lines 2289-2320: the loop over the rows of a table, and for a folder row
\* the table of its folder; a row without data is passed over.  A row whose
\* first column is missing or names an unregistered replica makes the code
\* read through an invalid pointer; the stores of the model have no such row.
RECURSIVE TransferStateRows(_, _, _, _, _)
TransferStateRows(sd, st, eid_tag, rows, i) ==
    IF i > Len(rows) \/ sd.aborted
    THEN sd
    ELSE IF rows[i].null
         THEN TransferStateRows(sd, st, eid_tag, rows, i + 1)
         ELSE LET row == emsmdbp_object_table_get_row_props(rows[i], <<eid_tag, PR_LAST_MODIFICATION_TIME>>)
              IN  IF row[1].data.null \/ ~KnownReplid(st, row[1].data.v[1].replid)
                  THEN Abort(sd)
                  ELSE LET eid == row[1].data.v[1]
                           pushed == [sd EXCEPT !.eid_set = RAWIDSET_push_glob(@, st.replids[eid.replid], <<eid.hi, eid.lo>>),
                                                !.cnset_seen = RAWIDSET_push_glob(@, st.replica_guid, ChangeNumber(eid, RowUnixTime(row[2])))]
                           below == IF eid_tag = PR_FID /\ RowCount(rows[i].folders) # 0
                                    THEN TransferStateRows(pushed, st, eid_tag, rows[i].folders.rows, 1)
                                    ELSE pushed
                       IN  TransferStateRows(below, st, eid_tag, rows, i + 1)

\* static void oxcfxics_fill_transfer_state_arrays(...) on the folder of
\* the context
oxcfxics_fill_transfer_state_arrays(sd, st, eid_tag, table) ==
    IF sd.aborted \/ ~st.folder.props_ok
    THEN Abort(sd)
    ELSE IF RowCount(table) = 0 THEN sd ELSE TransferStateRows(sd, st, eid_tag, table.rows, 1)

\* lines 2355-2372: the tables the request names
TransferStateArrays(sd, st, sc) ==
    IF sc.request.contents_mode
    THEN LET normal == IF sc.request.normal THEN oxcfxics_fill_transfer_state_arrays(sd, st, PR_MID, st.folder.messages) ELSE sd
         IN  IF sc.request.fai THEN oxcfxics_fill_transfer_state_arrays(normal, st, PR_MID, st.folder.fai) ELSE normal
    ELSE oxcfxics_fill_transfer_state_arrays(sd, st, PR_FID, st.folder.folders)

\* lines 2376-2406: the state block; sets is <<idset_given, cnset_seen>>
\* after the merges
TransferStateBlock(sd, sc, sets) ==
    LET seen == PushState(sd, "PidTagCnsetSeen", sets[2])
        fai == IF sc.request.contents_mode /\ sc.request.fai THEN PushState(seen, "PidTagCnsetSeenFAI", sets[2]) ELSE seen
        given == PushState(fai, "PidTagIdsetGiven", sets[1])
        read == IF sc.request.contents_mode /\ sc.request.read_state THEN PushState(given, "PidTagCnsetRead", sets[2]) ELSE given
    IN  PushU32(read, "PR_INCR_SYNC_STATE_END")

\* static void oxcfxics_ndr_push_transfer_state(ndr, synccontext_object):
\* the stream pushed and the context with the merged sets
oxcfxics_ndr_push_transfer_state(st, sc) ==
    LET sd == TransferStateArrays(PushU32(NewSyncData, "PR_INCR_SYNC_STATE_BEGIN"), st, sc)
        sets == MergedSets(sc, sd)
    IN  IF sd.aborted
        THEN [aborted |-> TRUE, synccontext |-> sc, sync_data |-> sd]
        ELSE [aborted |-> FALSE, synccontext |-> [sc EXCEPT !.idset_given = sets[1], !.cnset_seen = sets[2]],
              sync_data |-> TransferStateBlock(sd, sc, sets)]

\* EcDoRpc_RopSyncGetTransferState (0x82); the model keeps one FtContext
EcDoRpc_RopSyncGetTransferState(h) ==
    /\ ~aborted
    /\ IF TypeOf(h) # "synccontext"
       THEN /\ reply' = ErrorReply("SyncGetTransferState", h, "MAPI_E_INVALID_OBJECT")
            /\ UNCHANGED <<sessions, store, handles, ftcontext, synccontext, chunks, walk, aborted>>
       ELSE /\ "ftcontext" \notin handles
            /\ LET pushed == oxcfxics_ndr_push_transfer_state(store, synccontext)
               IN  IF pushed.aborted
                   THEN /\ aborted' = TRUE
                        /\ UNCHANGED <<sessions, store, handles, ftcontext, synccontext, reply, chunks, walk>>
                   ELSE /\ synccontext' = pushed.synccontext
                        /\ ftcontext' = [NewFtContext EXCEPT !.cutmarks = <<CUTMARK_END>>,
                                                             !.stream = [null |-> FALSE, data |-> pushed.sync_data.ndr,
                                                                         length |-> pushed.sync_data.offset, position |-> 0]]
                        /\ handles' = handles \cup {"ftcontext"}
                        /\ chunks' = [chunks EXCEPT !["ftcontext"] = NoChunks]
                        /\ reply' = HandleReply("SyncGetTransferState", h, "MAPI_E_SUCCESS", "ftcontext")
                        /\ UNCHANGED <<sessions, store, walk, aborted>>

Next ==
    \/ \E Level \in {0, 1}, PropertyTags \in {<<>>, <<NAMED_UNKNOWN>>} : EcDoRpc_RopFastTransferSourceCopyTo("folder", Level, PropertyTags)
    \/ \E request \in SyncRequests : EcDoRpc_RopSyncConfigure("folder", request)
    \/ \E h \in Handles, r \in BufferRequests : EcDoRpc_RopFastTransferSourceGetBuffer(h, r[1], r[2])
    \/ \E StateProperty \in StateProperties \cup {"PR_SUBJECT"} : EcDoRpc_RopSyncUploadStateStreamBegin("synccontext", StateProperty)
    \/ \E StreamData \in StreamDatas : EcDoRpc_RopSyncUploadStateStreamContinue("synccontext", StreamData)
    \/ EcDoRpc_RopSyncUploadStateStreamEnd("synccontext")

Spec == Init /\ [][Next]_vars

\* the chunker alone, on the large streams
ChunkNext ==
    \/ \E PropertyTags \in {<<>>} : EcDoRpc_RopFastTransferSourceCopyTo("folder", 0, PropertyTags)
    \/ \E request \in {SyncRequest("Contents", {"Unicode"}, {"Unicode", "Normal"}, {}, <<>>)} : EcDoRpc_RopSyncConfigure("folder", request)
    \/ \E h \in {"ftcontext", "synccontext"}, r \in ChunkRequests : EcDoRpc_RopFastTransferSourceGetBuffer(h, r[1], r[2])

ChunkSpec == ChunkInit /\ [][ChunkNext]_vars

(***************************************************************************)
(* The properties of the chunker.                                          *)
(***************************************************************************)
\* the context behind a handle
Ctx(h) == IF h = "ftcontext" THEN ftcontext ELSE synccontext

\* the last reply is that of a GetBuffer that read from a stream
GotBuffer == reply.op = "GetBuffer" /\ reply.error_code = "MAPI_E_SUCCESS"

\* where the chunk of the last reply ended
ChunkEnd == reply.start + reply.TransferBufferSize

\* the cut-marks strictly between two offsets
MarksInside(cutmarks, lo, hi) == { cutmarks[i] : i \in 1..Len(cutmarks) } \cap { c \in lo + 1 .. hi - 1 : c # CUTMARK_END }

Largest(S) == CHOOSE x \in S : \A y \in S : y <= x

Ceil(a, b) == (a + b - 1) \div b

\* the first n chunk ends of a transfer, or all of them when there are fewer
FirstEnds(ends, n) == SubSeq(ends, 1, Min(n, Len(ends)))

\* C1: with requested sizes of at least 1, every chunk starts where the
\* previous chunk ended (the first at 0), no chunk goes past the end of the
\* stream, and the chunks returned up to the Done reply add up to the stream
C1_ChunksAreContiguous ==
    \A h \in DOMAIN chunks :
        LET c == chunks[h]
        IN  (c.count > 0 /\ 0 \notin c.sizes) =>
                /\ \A i \in 1..Len(c.ends) : c.ends[i] <= Ctx(h).stream.length /\ (i > 1 => c.ends[i - 1] <= c.ends[i])
                /\ (GotBuffer /\ reply.handle = h) =>
                      /\ reply.start = (IF c.count = 1 THEN 0 ELSE c.ends[c.count - 1])
                      /\ Ctx(h).stream.position = c.ends[c.count]
                /\ c.done => c.ends[c.count] = Ctx(h).stream.length

\* a transfer of several chunks, one of them cut short on a cut-mark, that
\* has reached the Done reply
C1_Witness ==
    /\ GotBuffer /\ reply.TransferStatus = "TransferStatus_Done" /\ reply.start > 0
    /\ chunks[reply.handle].count >= 3
    /\ \E i \in 1..chunks[reply.handle].count - 1 : chunks[reply.handle].ends[i] \in MarksInside(Ctx(reply.handle).cutmarks, 0, reply.length)

\* C2: when the cursor plus the requested size is below the stream length,
\* the chunk ends at the largest cut-mark strictly between the cursor and
\* cursor + buffer_size if there is one, and at cursor + buffer_size otherwise
C2_ChunkEndsOnLargestCutmark ==
    (GotBuffer /\ reply.start + reply.buffer_size < reply.length) =>
        LET inside == MarksInside(Ctx(reply.handle).cutmarks, reply.start, reply.start + reply.buffer_size)
        IN  ChunkEnd = IF inside = {} THEN reply.start + reply.buffer_size ELSE Largest(inside)

\* the transfer of scenario S4: the stream of 10000 bytes with cut-marks at
\* 100, 500, 900, 4096, 4500 and 8000 (FastTransferSourceCopyTo also marks
\* offset 0, which no chunk can end on), read to the end in chunks of 4096
S4Transfer ==
    /\ "ftcontext" \in handles
    /\ ftcontext.stream.length = 10000
    /\ ftcontext.cutmarks = <<0, 100, 500, 900, 4096, 4500, 8000, CUTMARK_END>>
    /\ chunks["ftcontext"].sizes = {4096}
    /\ chunks["ftcontext"].done

\* C3 as claimed: a cut-mark at exactly cursor + buffer_size gives a chunk of
\* the full size ending on it, and the boundaries of S4 are 4096, 8000, 10000
C3_BoundariesAsClaimed ==
    /\ (GotBuffer /\ reply.start + reply.buffer_size < reply.length
          /\ \E i \in 1..Len(Ctx(reply.handle).cutmarks) : Ctx(reply.handle).cutmarks[i] = reply.start + reply.buffer_size)
       => reply.TransferBufferSize = reply.buffer_size
    /\ S4Transfer => FirstEnds(chunks["ftcontext"].ends, 3) = <<4096, 8000, 10000>>

\* C3 amended: a cut-mark at exactly cursor + buffer_size is not taken; the
\* boundaries of S4 on an FtContext are 900, 4500, 8000 and 10000
C3_BoundariesOfS4 ==
    S4Transfer => FirstEnds(chunks["ftcontext"].ends, 4) = <<900, 4500, 8000, 10000>>

C3_Witness == S4Transfer /\ GotBuffer /\ reply.handle = "ftcontext" /\ chunks["ftcontext"].count = 4

\* C4: no chunk is longer than the effective requested size, which is
\* BufferSize, or MaximumBufferSize when BufferSize is 0xBABE
C4_ChunkWithinRequestedSize ==
    GotBuffer => reply.TransferBufferSize <= (IF reply.BufferSize = 47806 THEN reply.MaximumBufferSize ELSE reply.BufferSize)

\* a chunk asked for with 0xBABE that a cut-mark made shorter than the maximum
C4_Witness ==
    /\ GotBuffer /\ reply.BufferSize = 47806 /\ reply.TransferStatus = "TransferStatus_Partial"
    /\ reply.TransferBufferSize > 0 /\ reply.TransferBufferSize < reply.MaximumBufferSize

C6_TotalStepCountIsCeil ==
    (GotBuffer /\ chunks[reply.handle].first > 0) =>
        reply.TotalStepCount = Ceil(reply.length, chunks[reply.handle].first)

(***************************************************************************)
(* The properties of the produced streams and of the session.              *)
(***************************************************************************)
\* the cut-mark list of a context: strictly increasing offsets below the
\* stream length, then the sentinel and nothing after it
WellMarked(ctx) ==
    /\ Len(ctx.cutmarks) >= 1
    /\ ctx.cutmarks[Len(ctx.cutmarks)] = CUTMARK_END
    /\ \A i \in 1..Len(ctx.cutmarks) - 1 :
          /\ ctx.cutmarks[i] # CUTMARK_END
          /\ ctx.cutmarks[i] < ctx.stream.length
          /\ (i > 1 => ctx.cutmarks[i - 1] < ctx.cutmarks[i])

\* C7: in every stream of a contents sync, a hierarchy sync or a CopyTo the
\* cut-mark list is strictly increasing, every entry but the last is below
\* the stream length and the sentinel is the last and only the last entry
C7_CutmarksStrictlyIncrease ==
    /\ ~ftcontext.stream.null => WellMarked(ftcontext)
    /\ ~synccontext.stream.null => WellMarked(synccontext)

\* the words of a stream, without their sizes
Words(data) == [i \in 1..Len(data) |-> IF data[i].k = "idset" THEN <<"idset", data[i].v>> ELSE <<data[i].k>>]

\* the first GetBuffer of scenario S1 has just replied: a contents sync
\* with Normal and Unicode, no state uploaded, no message in the folder
S1FirstReply ==
    /\ GotBuffer /\ reply.handle = "synccontext" /\ reply.BufferSize = 32768
    /\ chunks["synccontext"].count = 1 /\ walk.uploads = 0
    /\ synccontext.request = [NoRequest EXCEPT !.contents_mode = TRUE, !.normal = TRUE, !.unicode = TRUE]
    /\ store.folder.messages.rows = <<>>

\* C8: the fresh contents sync of an empty folder returns, on
\* GetBuffer(0x8000), one Done chunk made of STATE_BEGIN, PidTagCnsetSeen, an
\* empty idset, PidTagIdsetGiven, an empty idset, STATE_END, SYNC_END, and
\* its cut-mark list holds at least one mark before the sentinel
C8_FreshSyncOfEmptyFolder ==
    S1FirstReply =>
        /\ reply.TransferStatus = "TransferStatus_Done" /\ reply.start = 0 /\ reply.TransferBufferSize = reply.length
        /\ Words(synccontext.stream.data) = << <<"PR_INCR_SYNC_STATE_BEGIN">>, <<"PidTagCnsetSeen">>, <<"idset", <<>>>>, <<"PidTagIdsetGiven">>,
                                               <<"idset", <<>>>>, <<"PR_INCR_SYNC_STATE_END">>, <<"PR_INCR_SYNC_END">> >>
        /\ Len(synccontext.cutmarks) >= 2
        /\ synccontext.cutmarks[Len(synccontext.cutmarks)] = CUTMARK_END

\* the state block the claim describes, for the flags and the merged sets
StateBlock(fai, read_state, given, seen) ==
    << <<"PR_INCR_SYNC_STATE_BEGIN">>, <<"PidTagCnsetSeen">>, <<"idset", IDSET_serialize(seen)>> >>
    \o (IF fai THEN << <<"PidTagCnsetSeenFAI">>, <<"idset", IDSET_serialize(seen)>> >> ELSE <<>>)
    \o << <<"PidTagIdsetGiven">>, <<"idset", IDSET_serialize(given)>> >>
    \o (IF read_state THEN << <<"PidTagCnsetRead">>, <<"idset", IDSET_serialize(seen)>> >> ELSE <<>>)
    \o << <<"PR_INCR_SYNC_STATE_END">>, <<"PR_INCR_SYNC_END">> >>

\* a source key as a client sends it: length, replica GUID, six bytes
SourceKey(guid, lo) == <<XID_SIZE, guid, lo % 256, lo \div 256, 0, 0, 0, 0>>

\* the key of a message of the folder, the key of no object, a key under a
\* GUID the registry does not hold
SourceKeys == {SourceKey(1, 1), SourceKey(2, 300), SourceKey(7, 1)}

ImportFlags == {{}, {"Associated", "FailOnConflict"}}

HierarchyRow(parent_key, folder_key) ==
    <<SPropValue("PR_PARENT_SOURCE_KEY", parent_key), SPropValue("PR_SOURCE_KEY", folder_key), SPropValue("PR_DISPLAY_NAME", <<"n">>)>>

\* a folder of the top folder, a new folder there, a folder of a folder
\* below, a parent and a folder under an unknown GUID, a new folder of a
\* parent the store does not hold
HierarchyChanges ==
    { <<HierarchyRow(SourceKey(1, 15), SourceKey(1, 16)), <<>>>>,
      <<HierarchyRow(SourceKey(1, 15), SourceKey(2, 40)), <<SPropValue("PR_COMMENT", <<"c">>)>>>>,
      <<HierarchyRow(SourceKey(1, 16), SourceKey(1, 17)), <<>>>>,
      <<HierarchyRow(SourceKey(7, 15), SourceKey(1, 16)), <<>>>>,
      <<HierarchyRow(SourceKey(1, 15), SourceKey(7, 40)), <<>>>>,
      <<HierarchyRow(SourceKey(1, 99), SourceKey(1, 41)), <<SPropValue("PR_COMMENT", <<"c">>)>>>> }

DeleteFlags == {{}, {"HardDelete"}, {"Hierarchy", "HardDelete"}}

\* a message, a key under an unknown GUID and a message; a message the
\* folder does not hold and one it holds
DeleteArrays == { <<SourceKey(1, 1), SourceKey(7, 2), SourceKey(1, 2)>>, <<SourceKey(2, 300), SourceKey(7, 2), SourceKey(1, 3)>> }

\* keys whose length is not 22, as the decoder finds them in memory: the
\* length, then the 22 bytes that start where the key starts.  A key of 24
\* bytes (its last two bytes are not shown), keys of 18 bytes followed in
\* memory by any four bytes, an empty key followed by any 22 bytes
OtherLengthKeys ==
    { <<24, 1, 2, 0, 0, 0, 0, 0>> }
    \cup { <<18, 1, 3, 0, past, 0, 0, 0>> : past \in {0, 1} }
    \cup { <<0, guid, 4, 0, 0, 0, 0, 0>> : guid \in {1, 7} }

OtherLengthChanges ==
    { <<HierarchyRow(SourceKey(1, 15), key), <<>>>> : key \in {<<24, 2, 42, 0, 0, 0, 0, 0>>, <<18, 1, 16, 0, 0, 0, 0, 0>>} }
    \cup { <<HierarchyRow(<<24, 1, 15, 0, 0, 0, 0, 0>>, SourceKey(2, 43)), <<>>>> }

OtherLengthArrays == { <<key>> : key \in OtherLengthKeys }

IdCounts == {0, 1, 6}

\* a registry that gives replica 3 the GUID of replica 1
TwinStore == [MailStore EXCEPT !.name = "twin", !.replids = (1 :> 1) @@ (2 :> 2) @@ (3 :> 1)]

\* ids under replicas the registry holds and under one it does not, with
\* counters on both sides of every byte of the six
CodecFmids == { Fmid(replid, hi, lo) : replid \in {1, 2, 3, 5}, hi \in {0, 258}, lo \in {0, 1, 255, 256, 65538, 50331655, 2147483647} }

\* lines 237-266 applied to an id: the key, or the error of line 249
SourceKeyFromFmid(fmid) ==
    /\ reply' = IF KnownReplid(store, fmid.replid)
                THEN [op |-> "source_key_from_fmid", handle |-> "none", error_code |-> "MAPISTORE_SUCCESS", fmid |-> fmid,
                      source_key |-> oxcfxics_source_key_from_fmid(store, fmid)]
                ELSE [op |-> "source_key_from_fmid", handle |-> "none", error_code |-> "MAPISTORE_ERROR", fmid |-> fmid, source_key |-> <<>>]
    /\ UNCHANGED <<sessions, store, handles, ftcontext, synccontext, chunks, walk, aborted>>

\* lines 212-235 applied to the key just made
FmidFromSourceKey ==
    /\ reply.op = "source_key_from_fmid" /\ reply.error_code = "MAPISTORE_SUCCESS"
    /\ reply' = [op |-> "fmid_from_source_key", handle |-> "none",
                 error_code |-> IF oxcfxics_fmid_from_source_key(store, reply.source_key).error THEN "MAPISTORE_ERROR" ELSE "MAPISTORE_SUCCESS",
                 fmid |-> reply.fmid, source_key |-> reply.source_key,
                 fmidp |-> oxcfxics_fmid_from_source_key(store, reply.source_key).fmid]
    /\ UNCHANGED <<sessions, store, handles, ftcontext, synccontext, chunks, walk, aborted>>

\* the codec of source keys on its own
CodecNext ==
    \/ \E fmid \in CodecFmids : SourceKeyFromFmid(fmid)
    \/ FmidFromSourceKey

CodecSpec == InitOn({MailStore, TwinStore}) /\ [][CodecNext]_vars

\* sessions reserving ids side by side
ReplicaNext ==
    \/ \E s \in 1..MaxSessions, h \in {"folder", "released"}, IdCount \in IdCounts : EcDoRpc_RopGetLocalReplicaIds(s, h, IdCount)
    \/ \E s \in 1..MaxSessions : GetLocalReplicaIdsReply(s)

ReplicaSpec == InitOn({MailStore}) /\ [][ReplicaNext]_vars

\* the importer
ImportNext ==
    \/ \E request \in {SyncRequest("Contents", {"Unicode"}, {"Unicode", "Normal"}, {}, <<>>)} : EcDoRpc_RopSyncConfigure("folder", request)
    \/ \E source_key \in SourceKeys \cup OtherLengthKeys, ImportFlag \in ImportFlags :
          EcDoRpc_RopSyncImportMessageChange("synccontext", <<SPropValue("PR_SOURCE_KEY", source_key)>>, ImportFlag)
    \/ \E change \in HierarchyChanges \cup OtherLengthChanges : EcDoRpc_RopSyncImportHierarchyChange("synccontext", change[1], change[2])
    \/ \E Flags \in DeleteFlags, object_array \in DeleteArrays \cup OtherLengthArrays :
          EcDoRpc_RopSyncImportDeletes("synccontext", Flags, <<SPropValue("PR_SOURCE_KEY", object_array)>>)

ImportSpec == InitOn(ImportStores) /\ [][ImportNext]_vars

\* downloads, uploads and imports on one SyncContext
MixedNext ==
    \/ \E request \in {SyncRequest("Contents", {"Unicode"}, {"Unicode", "Normal"}, {}, <<>>)} : EcDoRpc_RopSyncConfigure("folder", request)
    \/ \E r \in BufferRequests : EcDoRpc_RopFastTransferSourceGetBuffer("synccontext", r[1], r[2])
    \/ \E StateProperty \in {"PidTagCnsetSeen"} : EcDoRpc_RopSyncUploadStateStreamBegin("synccontext", StateProperty)
    \/ \E StreamData \in {<<1, GLOBSET_RANGE, 0, 1, 0, 3, GLOBSET_END>>} : EcDoRpc_RopSyncUploadStateStreamContinue("synccontext", StreamData)
    \/ EcDoRpc_RopSyncUploadStateStreamEnd("synccontext")
    \/ \E ImportFlag \in {{}} : EcDoRpc_RopSyncImportMessageChange("synccontext", <<SPropValue("PR_SOURCE_KEY", SourceKey(2, 300))>>, ImportFlag)
    \/ \E PropertyValues \in {<<>>} : EcDoRpc_RopSyncImportHierarchyChange("synccontext", HierarchyRow(SourceKey(1, 15), SourceKey(2, 40)), PropertyValues)
    \/ \E Flags \in {{"HardDelete"}} : EcDoRpc_RopSyncImportDeletes("synccontext", Flags, <<SPropValue("PR_SOURCE_KEY", <<SourceKey(1, 1)>>)>>)

MixedSpec == InitOn({MailStore}) /\ [][MixedNext]_vars

\* the handles that never name a SyncContext: a folder, an FtContext, and
\* a handle that was released
OtherHandles == {"folder", "ftcontext", "released"}

\* the requests made of SyncConfigure alone: both modes, with and without
\* OnlySpecifiedProperties and BestBody, and tags that are excluded, given
\* twice, anchors of a mode, or body properties
ConfigureFlags ==
    { {"Normal"}, {"Normal", "FAI"}, {"Normal", "BestBody"}, {"Normal", "FAI", "BestBody"},
      {"Normal", "OnlySpecifiedProperties"}, {"FAI", "OnlySpecifiedProperties", "BestBody"} }

ConfigureTags ==
    { <<>>, <<PR_BODY_HTML, NAMED_LID>>, <<NAMED_UNKNOWN, PR_MID, NAMED_UNKNOWN>>,
      <<PR_SOURCE_KEY, Tag("PR_DISPLAY_NAME", "PT_STRING8"), PR_FID, PR_KEYWORDS>> }

ConfigureRequests ==
    { SyncRequest(type, {}, flags, {}, tags) : type \in {"Contents", "Hierarchy"}, flags \in ConfigureFlags, tags \in ConfigureTags }

\* the stores, and one whose FAI table has columns of its own: a body, an
\* anchor, and a subject of another type than that of the message table
ConfigureStores ==
    Stores \cup {[MailStore EXCEPT !.name = "columns",
                                   !.folder.fai.available = <<PR_BODY_UNICODE, PR_MID, Tag("PR_SUBJECT", "PT_STRING8"), PR_ATTACH_NUM>>]}

ConfigureNext == \E h \in {"folder", "synccontext"}, request \in ConfigureRequests : EcDoRpc_RopSyncConfigure(h, request)

ConfigureSpec == InitOn(ConfigureStores) /\ [][ConfigureNext]_vars

\* every RPC on the handles of the session, present or not
RpcNext ==
    \/ \E request \in {SyncRequest("Contents", {}, {"Normal", "FAI", "ReadState", "BestBody"}, {"Eid", "MessageSize", "Cn"}, <<NAMED_LID>>)} :
          EcDoRpc_RopSyncConfigure("folder", request)
    \/ \E h \in Handles, r \in BufferRequests : EcDoRpc_RopFastTransferSourceGetBuffer(h, r[1], r[2])
    \/ \E h \in Handles, StateProperty \in {"PidTagCnsetSeen"} : EcDoRpc_RopSyncUploadStateStreamBegin(h, StateProperty)
    \/ \E h \in Handles, StreamData \in {<<1, GLOBSET_RANGE, 0, 1, 0, 3, GLOBSET_END>>} : EcDoRpc_RopSyncUploadStateStreamContinue(h, StreamData)
    \/ \E h \in Handles : EcDoRpc_RopSyncUploadStateStreamEnd(h)
    \/ \E h \in Handles, ImportFlag \in {{}} : EcDoRpc_RopSyncImportMessageChange(h, <<SPropValue("PR_SOURCE_KEY", SourceKey(2, 300))>>, ImportFlag)
    \/ \E h \in OtherHandles, PropertyValues \in {<<>>} : EcDoRpc_RopSyncImportHierarchyChange(h, HierarchyRow(SourceKey(1, 15), SourceKey(2, 40)), PropertyValues)
    \/ \E h \in OtherHandles, Flags \in {{"HardDelete"}} : EcDoRpc_RopSyncImportDeletes(h, Flags, <<SPropValue("PR_SOURCE_KEY", <<SourceKey(1, 1)>>)>>)
    \/ \E h \in {"synccontext", "released"} : EcDoRpc_RopSyncImportMessageMove(h)
    \/ \E h \in {"synccontext", "released"} : EcDoRpc_RopSyncImportReadStateChanges(h)
    \/ \E h \in {"synccontext", "released"} : EcDoRpc_RopSetLocalReplicaMidsetDeleted(h)
    \/ \E h \in Handles : EcDoRpc_RopSyncGetTransferState(h)

RpcSpec == InitOn({MailStore}) /\ [][RpcNext]_vars

\* the stream ends with the block and holds no STATE_BEGIN before it
EndsWith(words, block) ==
    /\ Len(words) >= Len(block)
    /\ SubSeq(words, Len(words) - Len(block) + 1, Len(words)) = block
    /\ \A i \in 1..Len(words) - Len(block) : words[i] # <<"PR_INCR_SYNC_STATE_BEGIN">>

\* the sets of the session before the production merged with what the walk
\* accumulated
WalkGiven == IDSET_merge_idsets(walk.before[1], RAWIDSET_convert_to_idset(walk.eid_set, FALSE))
WalkSeen == IDSET_merge_idsets(walk.before[2], RAWIDSET_convert_to_idset(walk.cnset_seen, TRUE))

\* the first GetBuffer on a SyncContext has just built the stream
JustBuilt == GotBuffer /\ reply.handle = "synccontext" /\ chunks["synccontext"].count = 1

\* C9 as claimed: in both modes the stream ends with STATE_BEGIN, CnsetSeen,
\* CnsetSeenFAI iff the FAI flag is set, IdsetGiven, CnsetRead iff the
\* read_state flag is set, STATE_END, SYNC_END, over the merged sets
C9_StateBlockInBothModes ==
    JustBuilt => EndsWith(Words(synccontext.stream.data), StateBlock(synccontext.request.fai, synccontext.request.read_state, WalkGiven, WalkSeen))

\* C9 amended: that holds in contents mode; in hierarchy mode the block is
\* STATE_BEGIN, CnsetSeen, IdsetGiven, STATE_END, SYNC_END whatever the flags
C9_StateBlockByMode ==
    JustBuilt => EndsWith(Words(synccontext.stream.data),
                          StateBlock(synccontext.request.contents_mode /\ synccontext.request.fai,
                                     synccontext.request.contents_mode /\ synccontext.request.read_state, WalkGiven, WalkSeen))

\* a hierarchy stream asked for with both flags, built over folders after
\* an upload of PidTagCnsetSeen
C9_Witness ==
    /\ JustBuilt /\ ~synccontext.request.contents_mode
    /\ synccontext.request.fai /\ synccontext.request.read_state
    /\ walk.eid_set # <<>> /\ ~walk.before[2].null

UploadOps == {"UploadStateStreamBegin", "UploadStateStreamContinue", "UploadStateStreamEnd"}

\* C10: once GetBuffer has been called for a SyncContext, no upload RPC on
\* it succeeds and none replaces idset_given or cnset_seen
C10_NoUploadAfterGetBuffer ==
    [][(chunks["synccontext"].count > 0 /\ aborted' = aborted /\ reply'.op \in UploadOps /\ reply'.handle = "synccontext")
         => /\ reply'.error_code # "MAPI_E_SUCCESS"
            /\ synccontext'.idset_given = synccontext.idset_given
            /\ synccontext'.cnset_seen = synccontext.cnset_seen]_vars

\* a step that is not a SyncConfigure on a context whose stream is built
AfterBuild == ~synccontext.stream.null /\ reply'.op # "SyncConfigure"

\* the sets a context holds merged with what the walk of the next state
\* accumulated
GivenThen == IDSET_merge_idsets(synccontext.idset_given, RAWIDSET_convert_to_idset(walk'.eid_set, FALSE))
SeenThen == IDSET_merge_idsets(synccontext.cnset_seen, RAWIDSET_convert_to_idset(walk'.cnset_seen, TRUE))

\* a context no GetBuffer was answered on has no stream and the store was
\* not walked for it; the store is walked at most once for a context
NotBuiltBefore ==
    /\ ("synccontext" \in handles /\ chunks["synccontext"].count = 0) => (synccontext.stream.null /\ walk.builds = 0)
    /\ walk.builds <= 1

\* the step that gives a context its stream
BuiltByFirstGetBuffer ==
    (synccontext.stream.null /\ ~synccontext'.stream.null)
        => /\ reply'.op = "GetBuffer" /\ reply'.handle = "synccontext" /\ reply'.error_code = "MAPI_E_SUCCESS"
           /\ chunks'["synccontext"].count = 1 /\ walk'.builds = 1
           /\ EndsWith(Words(synccontext'.stream.data),
                       StateBlock(synccontext.request.contents_mode /\ synccontext.request.fai,
                                  synccontext.request.contents_mode /\ synccontext.request.read_state, GivenThen, SeenThen))

Frozen ==
    AfterBuild
        => /\ synccontext'.stream.data = synccontext.stream.data
           /\ synccontext'.stream.length = synccontext.stream.length
           /\ synccontext'.cutmarks = synccontext.cutmarks
           /\ walk'.builds = walk.builds

\* C11: a SyncContext no GetBuffer was answered on has no stream and the
\* store was not walked for it; the step that gives it a stream is its
\* first GetBuffer, and that stream ends with the state block over the
\* idset_given and cnset_seen the context held before the call, merged with
\* the walk; once the stream is there no GetBuffer, upload or import walks
\* the store again or changes the stream bytes, its length or the cut-marks
C11_StreamBuiltOnceByFirstGetBuffer == []NotBuiltBefore /\ [][BuiltByFirstGetBuffer /\ Frozen]_vars

\* a stream built over an uploaded cnset_seen, then read twice, with a
\* second upload ended and an import served since the context was made
C11_Witness ==
    /\ walk.builds = 1 /\ ~walk.before[2].null /\ chunks["synccontext"].count >= 2
    /\ walk.uploads = 2 /\ reply = ErrorReply("UploadStateStreamEnd", "synccontext", "MAPI_E_SUCCESS")
    /\ store.imports > 0

----------------------------------------------------------------------------
\* State upload

Armed == "synccontext" \in handles /\ synccontext.state_property # "0"

Idle == "synccontext" \in handles /\ synccontext.state_property = "0"

Replied(op, error_code) == reply' = ErrorReply(op, "synccontext", error_code)

\* C12: SyncUploadStateStreamBegin on an armed context replies
\* NotInitialized, on an idle context with a property other than
\* PidTagIdsetGiven, PidTagCnsetSeen, PidTagCnsetSeenFAI, PidTagCnsetRead it
\* replies InvalidParameter, and in both cases the pending property and the
\* scratch stay as they were; otherwise it replies Success, the pending
\* property is the requested one and the scratch is empty
C12_BeginArmsOnlyIdle ==
    [][\A StateProperty \in StateProperties \cup {"PR_SUBJECT"} :
          ("synccontext" \in handles /\ EcDoRpc_RopSyncUploadStateStreamBegin("synccontext", StateProperty))
          => IF Armed
             THEN Replied("UploadStateStreamBegin", "MAPI_E_NOT_INITIALIZED") /\ synccontext' = synccontext
             ELSE IF StateProperty \notin {"PidTagIdsetGiven", "PidTagCnsetSeen", "PidTagCnsetSeenFAI", "PidTagCnsetRead"}
                  THEN Replied("UploadStateStreamBegin", "MAPI_E_INVALID_PARAMETER") /\ synccontext' = synccontext
                  ELSE /\ Replied("UploadStateStreamBegin", "MAPI_E_SUCCESS")
                       /\ synccontext'.state_property = StateProperty
                       /\ synccontext'.state_stream = <<>>]_vars

\* a Begin refused on a context that is armed and already holds bytes
C12_Witness ==
    /\ Armed /\ synccontext.state_stream # <<>>
    /\ reply = ErrorReply("UploadStateStreamBegin", "synccontext", "MAPI_E_NOT_INITIALIZED")

\* C13: Continue and End on a context with no armed upload reply
\* NotInitialized and change nothing; on an armed context the scratch is the
\* concatenation, in call order, of the payloads of the Continue calls
\* since the Begin, which is what End finds
C13_ScratchIsTheConcatenation ==
    [][/\ \A StreamData \in StreamDatas :
            (Idle /\ EcDoRpc_RopSyncUploadStateStreamContinue("synccontext", StreamData))
            => Replied("UploadStateStreamContinue", "MAPI_E_NOT_INITIALIZED") /\ synccontext' = synccontext
       /\ (Idle /\ EcDoRpc_RopSyncUploadStateStreamEnd("synccontext"))
            => Replied("UploadStateStreamEnd", "MAPI_E_NOT_INITIALIZED") /\ synccontext' = synccontext
       /\ Armed => synccontext.state_stream = Flatten(walk.fed)
       /\ (Armed /\ EcDoRpc_RopSyncUploadStateStreamEnd("synccontext") /\ ~aborted')
            => synccontext' = UploadedState(synccontext, IDSET_parse(Flatten(walk.fed)))]_vars

\* an armed context fed by two different payloads
C13_Witness ==
    /\ Armed /\ Len(walk.fed) = 2 /\ walk.fed[1] # walk.fed[2]
    /\ reply = ErrorReply("UploadStateStreamContinue", "synccontext", "MAPI_E_SUCCESS")

SameIds(idset, parsed_idset) == idset.null = parsed_idset.null /\ idset.ids = parsed_idset.ids

EndSucceeded == EcDoRpc_RopSyncUploadStateStreamEnd("synccontext") /\ Replied("UploadStateStreamEnd", "MAPI_E_SUCCESS")

\* C14: a successful End installs the idset parsed from the scratch as
\* idset_given when the pending property is PidTagIdsetGiven and as
\* cnset_seen for the three other properties, in place of what the slot
\* held, and leaves the other slot as it was; afterwards the context is idle
\* with an empty scratch (as every idle context is), so that a Begin is
\* accepted and starts from no bytes
C14_EndInstallsInTheNamedSlot ==
    [][/\ (Armed /\ EndSucceeded)
            => /\ IF synccontext.state_property = "PidTagIdsetGiven"
                  THEN /\ SameIds(synccontext'.idset_given, IDSET_parse(synccontext.state_stream))
                       /\ synccontext'.cnset_seen = synccontext.cnset_seen
                  ELSE /\ SameIds(synccontext'.cnset_seen, IDSET_parse(synccontext.state_stream))
                       /\ synccontext'.idset_given = synccontext.idset_given
               /\ synccontext'.state_property = "0"
       /\ Idle => synccontext.state_stream = <<>>]_vars

\* two uploads have filled the two slots with different sets
C14_Witness ==
    /\ Idle /\ reply = ErrorReply("UploadStateStreamEnd", "synccontext", "MAPI_E_SUCCESS")
    /\ ~synccontext.idset_given.null /\ ~synccontext.cnset_seen.null
    /\ synccontext.idset_given.ids # synccontext.cnset_seen.ids

\* C15: an End whose scratch does not parse as an idset replies with an
\* error and leaves idset_given and cnset_seen as they were before the
\* upload
C15_MalformedUploadIsRejected ==
    [][(Armed /\ IDSET_parse(synccontext.state_stream).null /\ EcDoRpc_RopSyncUploadStateStreamEnd("synccontext"))
         => /\ reply'.op = "UploadStateStreamEnd" /\ reply'.error_code # "MAPI_E_SUCCESS"
            /\ synccontext'.idset_given = synccontext.idset_given
            /\ synccontext'.cnset_seen = synccontext.cnset_seen]_vars

----------------------------------------------------------------------------
\* Imports

OnSyncContext == "synccontext" \in handles

\* the requests of one kind among those the last import RPC made
Requests(st, op) == SelectSeq(st.requests, LAMBDA request : request.op = op)

ImportedKey(source_key, ImportFlag) == EcDoRpc_RopSyncImportMessageChange("synccontext", <<SPropValue("PR_SOURCE_KEY", source_key)>>, ImportFlag)

NothingImported == handles' = handles /\ store' = store /\ synccontext' = synccontext

C17_OpenOrCreateOnce ==
    [][\A source_key \in SourceKeys, ImportFlag \in ImportFlags :
          (OnSyncContext /\ store.mapistore /\ KnownGuid(store, source_key[2]) /\ ImportedKey(source_key, ImportFlag))
          => LET messageID == oxcfxics_fmid_from_source_key(store, source_key).fmid
             IN  /\ Requests(store', "create_message")
                      = IF emsmdbp_object_message_open(store, store.folder.folderID, messageID) THEN <<>>
                        ELSE <<Request("create_message", messageID, store.folder.folderID,
                                       IF "Associated" \in ImportFlag THEN "associated" ELSE "normal", <<>>)>>
                 /\ emsmdbp_object_message_open(store, store.folder.folderID, messageID) => reply'.error_code = "MAPI_E_SUCCESS"
                 /\ reply'.error_code = "MAPI_E_SUCCESS"
                      => /\ reply'.MessageId = 0
                         /\ reply'.slot \in handles' \ handles
                         /\ emsmdbp_object_message_open(store', store.folder.folderID, messageID)]_vars

\* an associated message has been created and a handle returned for it
C17_Witness ==
    /\ reply.op = "SyncImportMessageChange" /\ reply.error_code = "MAPI_E_SUCCESS"
    /\ \E c \in store.created : c.kind = "message" /\ c.arg = "associated"
    /\ reply.slot \in handles

\* C18: SyncImportHierarchyChange replies NotFound, creates no folder and
\* sets no property when the source key at position 0 or at position 1 of
\* HierarchyValues is under an unknown GUID; otherwise it asks for the
\* folder of the FMID of position 1 under the parent of the FMID of
\* position 0, asks for its creation only when it was not there, and, the
\* folder opened or created, sets the hierarchy values followed by the
\* property values on it
C18_FolderOpenedOrCreatedThenSet ==
    [][\A change \in HierarchyChanges :
          (OnSyncContext /\ EcDoRpc_RopSyncImportHierarchyChange("synccontext", change[1], change[2]))
          => IF ~KnownGuid(store, change[1][1].value[2]) \/ ~KnownGuid(store, change[1][2].value[2])
             THEN Replied("SyncImportHierarchyChange", "MAPI_E_NOT_FOUND") /\ store' = store
             ELSE LET parentFolderID == Fmid(change[1][1].value[2], 0, change[1][1].value[3] + 256 * change[1][1].value[4])
                      folderID == Fmid(change[1][2].value[2], 0, change[1][2].value[3] + 256 * change[1][2].value[4])
                      was_there == [fmid |-> folderID, parent |-> parentFolderID] \in KnownFolders(store)
                      created == [kind |-> "folder", fmid |-> folderID, parent |-> parentFolderID, arg |-> ""] \in store'.created
                      aRow == change[1] \o change[2]
                  IN  /\ Requests(store', "open_folder") = <<Request("open_folder", folderID, parentFolderID, "", <<>>)>>
                      /\ Requests(store', "create_folder")
                           = IF was_there THEN <<>> ELSE <<Request("create_folder", folderID, parentFolderID, "", aRow)>>
                      /\ Requests(store', "set_properties")
                           = IF was_there \/ created THEN <<Request("set_properties", folderID, parentFolderID, "", aRow)>> ELSE <<>>
                      /\ reply'.error_code = "MAPI_E_SUCCESS" => [fmid |-> folderID, row |-> aRow] \in store'.written]_vars

\* a folder has been created under the top folder and its row written
C18_Witness ==
    /\ reply.op = "SyncImportHierarchyChange" /\ reply.error_code = "MAPI_E_SUCCESS"
    /\ Requests(store, "create_folder") # <<>>
    /\ \E w \in store.written : Len(w.row) = 4

\* the requests the claim expects for the entries that resolve: for each,
\* in the order of the array, one deletion of the message and one of its
\* index record
RECURSIVE Deletions(_, _, _)
Deletions(st, object_array, delete_type) ==
    IF object_array = <<>> THEN <<>>
    ELSE (IF KnownGuid(st, Head(object_array)[2])
          THEN LET objectID == Fmid(Head(object_array)[2], 0, Head(object_array)[3] + 256 * Head(object_array)[4])
               IN  <<Request("delete_message", objectID, st.folder.folderID, delete_type, <<>>),
                     Request("record_del_mid", objectID, NoId, delete_type, <<>>)>>
          ELSE <<>>) \o Deletions(st, Tail(object_array), delete_type)

DeletedArray(Flags, object_array) == EcDoRpc_RopSyncImportDeletes("synccontext", Flags, <<SPropValue("PR_SOURCE_KEY", object_array)>>)

DeleteType(Flags) == IF "HardDelete" \in Flags THEN "MAPISTORE_PERMANENT_DELETE" ELSE "MAPISTORE_SOFT_DELETE"

\* C19 as claimed: with the Hierarchy flag SyncImportDeletes replies
\* InvalidObject and requests no deletion; otherwise it requests, for every
\* entry of the array that resolves and in the order of the array, one
\* deletion of the message and one of its index record, permanent with
\* HardDelete and soft without, whatever becomes of the other entries
C19_DeletesEveryResolvedEntry ==
    [][\A Flags \in DeleteFlags, object_array \in DeleteArrays :
          (OnSyncContext /\ DeletedArray(Flags, object_array))
          => IF "Hierarchy" \in Flags
             THEN Replied("SyncImportDeletes", "MAPI_E_INVALID_OBJECT") /\ store' = store
             ELSE store'.requests = Deletions(store, object_array, DeleteType(Flags))]_vars

\* C19 amended: without the Hierarchy flag that holds on a folder kept by
\* mapistore; on another folder the reply is InvalidObject and no deletion
\* is requested
C19_DeletesOnStoreFolder ==
    [][\A Flags \in DeleteFlags, object_array \in DeleteArrays :
          (OnSyncContext /\ DeletedArray(Flags, object_array))
          => IF "Hierarchy" \in Flags \/ ~store.mapistore
             THEN Replied("SyncImportDeletes", "MAPI_E_INVALID_OBJECT") /\ store' = store
             ELSE /\ store'.requests = Deletions(store, object_array, DeleteType(Flags))
                  /\ Replied("SyncImportDeletes", "MAPI_E_SUCCESS")]_vars

\* a soft deletion of a message the folder holds went on after a deletion
\* that failed and an entry that did not resolve
C19_Witness ==
    /\ reply = ErrorReply("SyncImportDeletes", "synccontext", "MAPI_E_SUCCESS")
    /\ Len(store.requests) = 4
    /\ store.requests[1].arg = "MAPISTORE_SOFT_DELETE" /\ store.requests[1].fmid = Fmid(2, 0, 300)
    /\ store.requests[3].fmid = Fmid(1, 0, 3)
    /\ ~emsmdbp_object_message_open(store, store.folder.folderID, Fmid(1, 0, 3))
    /\ emsmdbp_object_message_open(store, store.folder.folderID, Fmid(1, 0, 1))

----------------------------------------------------------------------------
\* The sets of a production

\* the rows of the message tables a contents production walks
WalkedRows(st, sc) ==
    (IF sc.request.normal THEN st.folder.messages.rows ELSE <<>>) \o (IF sc.request.fai THEN st.folder.fai.rows ELSE <<>>)

\* for every row, the GUID of the replica of its FMID and its counter
RowGlobs(st, rows) ==
    { <<st.replids[rows[i].props["PR_MID"][1].replid], rows[i].props["PR_MID"][1].hi, rows[i].props["PR_MID"][1].lo>> : i \in 1..Len(rows) }

\* the idset_given the claim expects after the production
GivenAfter(st, sc, before) == (IF before.null THEN {} ELSE before.ids) \cup RowGlobs(st, WalkedRows(st, sc))

ContentsBuilt == JustBuilt /\ synccontext.request.contents_mode

\* C23: after a contents production the session holds as idset_given the
\* set uploaded before it together with (GUID, counter) of every row of the
\* walked message tables, skipped or not, and the state block serializes
\* that set after PidTagIdsetGiven; with no idset uploaded it is the set
\* of the rows alone
C23_IdsetGivenCoversEveryRow ==
    ContentsBuilt
    => /\ ~synccontext.idset_given.null
       /\ synccontext.idset_given.ids = GivenAfter(store, synccontext, walk.before[1])
       /\ \E i \in 1..Len(synccontext.stream.data) - 1 :
             /\ Words(synccontext.stream.data)[i] = <<"PidTagIdsetGiven">>
             /\ Words(synccontext.stream.data)[i + 1]
                   = <<"idset", IDSET_serialize([null |-> FALSE, single |-> FALSE, ids |-> GivenAfter(store, synccontext, walk.before[1])])>>

\* messages 1:1, 1:2, 2:3 and 1:4 walked after uploads of idset_given
\* {1:[1..3]} and of a cnset_seen that made the walk skip rows
C23_Witness ==
    /\ ContentsBuilt /\ Len(store.folder.messages.rows) = 4 /\ synccontext.request.normal
    /\ ~walk.before[1].null /\ walk.before[1].ids = {<<1, 0, 1>>, <<1, 0, 2>>, <<1, 0, 3>>}
    /\ Len(walk.cnset_seen) < Len(walk.eid_set)
    /\ IDSET_serialize(synccontext.idset_given) = <<1, GLOBSET_RANGE, 0, 1, 0, 4, GLOBSET_END, 2, GLOBSET_RANGE, 0, 3, 0, 3, GLOBSET_END>>

\* the values that follow the tag PR_CHANGE_KEY in a stream, by position
ChangeKeyAt(data) == { i \in 1..Len(data) - 1 : data[i].k = "PR_CHANGE_KEY" }

\* C24: no two change records of a produced stream carry the same
\* PR_CHANGE_KEY, that is the same change number
C24_NoChangeNumberTwice ==
    ~synccontext.stream.null
    => \A i, j \in ChangeKeyAt(synccontext.stream.data) : i # j => synccontext.stream.data[i + 1].v # synccontext.stream.data[j + 1].v

\* the folders below a table in depth-first pre-order, each with the
\* parent source key and the source key the claim expects of its record
RECURSIVE PreOrder(_, _, _)
PreOrder(st, rows, top) ==
    IF rows = <<>> THEN <<>>
    ELSE << <<IF top THEN <<0>> ELSE oxcfxics_source_key_from_fmid(st, Head(rows).props["PR_PARENT_FID"][1]),
              oxcfxics_source_key_from_fmid(st, Head(rows).props["PR_FID"][1])>> >>
         \o (IF Head(rows).folders.null THEN <<>> ELSE PreOrder(st, Head(rows).folders.rows, FALSE))
         \o PreOrder(st, Tail(rows), top)

\* the parent source key and the source key of every record of a stream,
\* in the order of the stream
RECURSIVE FolderRecords(_, _)
FolderRecords(data, i) ==
    IF i + 3 > Len(data) THEN <<>>
    ELSE IF data[i].k = "PR_PARENT_SOURCE_KEY" /\ data[i + 2].k = "PR_SOURCE_KEY"
         THEN << <<data[i + 1].v, data[i + 3].v>> >> \o FolderRecords(data, i + 4)
         ELSE FolderRecords(data, i + 1)

HierarchyBuilt == JustBuilt /\ ~synccontext.request.contents_mode

\* C25: the folder records of a hierarchy stream are those of the folders
\* below the top folder in depth-first pre-order (a folder before its
\* descendants, these before its next sibling, siblings in table order),
\* less the folders that were skipped; every folder has a record when no
\* cnset_seen was uploaded; PR_PARENT_SOURCE_KEY is the empty binary in the
\* records of the folders of the top folder and the source key of
\* PR_PARENT_FID in the others
C25_FoldersInDepthFirstPreOrder ==
    HierarchyBuilt
    => /\ FolderRecords(synccontext.stream.data, 1)
            = SelectSeq(PreOrder(store, store.folder.folders.rows, TRUE),
                        LAMBDA record : record \in SeqRange(FolderRecords(synccontext.stream.data, 1)))
       /\ walk.before[2].null => FolderRecords(synccontext.stream.data, 1) = PreOrder(store, store.folder.folders.rows, TRUE)

\* folder 1:16, folder 1:17 below it, then folder 1:18 beside 1:16
C25_Witness ==
    /\ HierarchyBuilt /\ walk.before[2].null
    /\ FolderRecords(synccontext.stream.data, 1)
         = << << <<0>>, SourceKey(1, 16)>>, <<SourceKey(1, 16), SourceKey(1, 17)>>, << <<0>>, SourceKey(1, 18)>> >>

\* the store cannot open the table or has no data for one of its rows
TableFails(table) == table.null \/ \E i \in 1..Len(table.rows) : table.rows[i].null

\* the store will return an error to the producer of the context
WalkFails(st, sc) ==
    IF sc.request.contents_mode
    THEN (sc.request.normal /\ TableFails(st.folder.messages)) \/ (sc.request.fai /\ TableFails(st.folder.fai))
    ELSE TableFails(st.folder.folders)

\* C26: a first GetBuffer whose producer gets an error from the store
\* replies InvalidObject, leaves the SyncContext without a stream and does
\* not terminate the server
C26_StoreErrorRepliesInvalidObject ==
    [][\A r \in BufferRequests :
          (/\ OnSyncContext /\ synccontext.stream.null /\ WalkFails(store, synccontext)
           /\ EffectiveBufferSize(r[1], r[2]) # 0
           /\ EcDoRpc_RopFastTransferSourceGetBuffer("synccontext", r[1], r[2]))
          => /\ ~aborted'
             /\ reply' = ErrorReply("GetBuffer", "synccontext", "MAPI_E_INVALID_OBJECT")
             /\ synccontext'.stream.null]_vars

----------------------------------------------------------------------------
\* Handles and stubs
\* the RPCs that work on a SyncContext, called with handle h and the
\* requests of RpcNext
SyncContextRpc(h) ==
    \/ EcDoRpc_RopSyncImportMessageChange(h, <<SPropValue("PR_SOURCE_KEY", SourceKey(2, 300))>>, {})
    \/ EcDoRpc_RopSyncImportHierarchyChange(h, HierarchyRow(SourceKey(1, 15), SourceKey(2, 40)), <<>>)
    \/ EcDoRpc_RopSyncImportDeletes(h, {"HardDelete"}, <<SPropValue("PR_SOURCE_KEY", <<SourceKey(1, 1)>>)>>)
    \/ EcDoRpc_RopSyncUploadStateStreamBegin(h, "PidTagCnsetSeen")
    \/ EcDoRpc_RopSyncUploadStateStreamContinue(h, <<1, GLOBSET_RANGE, 0, 1, 0, 3, GLOBSET_END>>)
    \/ EcDoRpc_RopSyncUploadStateStreamEnd(h)
    \/ EcDoRpc_RopSyncGetTransferState(h)

\* the stubs said to work on a SyncContext
StubRpc(h) == EcDoRpc_RopSyncImportMessageMove(h) \/ EcDoRpc_RopSyncImportReadStateChanges(h)

\* h is missing from the handle table or does not name a SyncContext
BadHandle(h) == h \notin handles \/ h # "synccontext"

InvalidObject == reply'.error_code = "MAPI_E_INVALID_OBJECT" /\ UNCHANGED <<store, handles, ftcontext, synccontext, sessions>>

\* GetBuffer on a handle that is neither an FtContext nor a SyncContext
\* replies InvalidObject
GetBufferNeedsContext ==
    \A h \in Handles \cup OtherHandles, r \in BufferRequests :
       ((h \notin handles \/ h \notin {"ftcontext", "synccontext"}) /\ EcDoRpc_RopFastTransferSourceGetBuffer(h, r[1], r[2])) => InvalidObject

\* C27: every RPC whose pre-state is a SyncContext, the stubs
\* SyncImportMessageMove and SyncImportReadStateChanges included, replies
\* InvalidObject and changes neither the session nor the store when its
\* handle is missing or is not a SyncContext; so does GetBuffer on a handle
\* that is neither an FtContext nor a SyncContext
C27_BadHandleIsInvalidObject ==
    [][/\ \A h \in Handles \cup OtherHandles : (BadHandle(h) /\ (SyncContextRpc(h) \/ StubRpc(h))) => InvalidObject
       /\ GetBufferNeedsContext]_vars

\* C27 (amended): every RPC whose pre-state is a SyncContext and that is not
\* a stub replies InvalidObject and changes neither the session nor the
\* store when its handle is missing or is not a SyncContext; the stubs
\* SyncImportMessageMove and SyncImportReadStateChanges reply Success for
\* such a handle too; GetBuffer on a handle that is neither an FtContext nor
\* a SyncContext replies InvalidObject
C27_BadHandleOfNonStubIsInvalidObject ==
    [][/\ \A h \in Handles \cup OtherHandles : (BadHandle(h) /\ SyncContextRpc(h)) => InvalidObject
       /\ \A h \in Handles \cup OtherHandles : (BadHandle(h) /\ StubRpc(h)) => reply'.error_code = "MAPI_E_SUCCESS"
       /\ GetBufferNeedsContext]_vars

\* SyncGetTransferState was refused on the handle of a live FtContext
C27_Witness ==
    /\ {"ftcontext", "synccontext"} \subseteq handles
    /\ reply = ErrorReply("SyncGetTransferState", "ftcontext", "MAPI_E_INVALID_OBJECT")

\* one of the three stubs, called with handle h
Stub(h) == StubRpc(h) \/ EcDoRpc_RopSetLocalReplicaMidsetDeleted(h)

\* C28: SyncImportMessageMove, SyncImportReadStateChanges and
\* SetLocalReplicaMidsetDeleted reply Success for every request
\* (SyncImportMessageMove with MessageId 0), keep the handle of the caller
\* in the reply slot and change neither the store nor any context
C28_StubsOnlyReplySuccess ==
    [][\A h \in Handles \cup OtherHandles :
          Stub(h) => /\ reply'.error_code = "MAPI_E_SUCCESS"
                     /\ reply'.handle = h /\ reply'.slot = h
                     /\ (EcDoRpc_RopSyncImportMessageMove(h) => reply'.MessageId = 0)
                     /\ UNCHANGED <<store, handles, ftcontext, synccontext, sessions>>]_vars

\* SyncImportMessageMove answered on a released handle while a SyncContext
\* with a stream and a pending upload exists
C28_Witness ==
    /\ reply.op = "SyncImportMessageMove" /\ reply.handle = "released" /\ reply.error_code = "MAPI_E_SUCCESS"
    /\ "synccontext" \in handles /\ ~synccontext.stream.null /\ synccontext.state_property # "0"

----------------------------------------------------------------------------
\* Isolation of the contexts
\* an RPC addressed to handle h: it ends the server or leaves a reply that
\* names h
RpcOn(h) ==
    /\ aborted' \/ reply'.handle = h
    /\ \/ SyncContextRpc(h)
       \/ Stub(h)
       \/ /\ aborted' \/ reply'.op = "GetBuffer"
          /\ \E r \in BufferRequests : EcDoRpc_RopFastTransferSourceGetBuffer(h, r[1], r[2])

\* the contexts other than that of h that are in the handle table keep
\* every field: mode and flags, property set, idset_given, cnset_seen,
\* pending upload property, scratch buffer, stream, cut-marks and cursor
OthersKept(h) ==
    /\ (h # "synccontext" /\ "synccontext" \in handles) => synccontext' = synccontext
    /\ (h # "ftcontext" /\ "ftcontext" \in handles) => ftcontext' = ftcontext

----------------------------------------------------------------------------
\* The property set of a SyncContext
Ids(tags) == { tags[i].id : i \in 1..Len(tags) }

\* the tags the store has for the tables the request names
AvailableTags(st, request) ==
    UNION { SeqRange(TablesOf(st, request)[i].available) : i \in { j \in 1..Len(TablesOf(st, request)) : TablesOf(st, request)[j].available_ok } }

AvailableIds(st, request) == { tag.id : tag \in AvailableTags(st, request) }

NeverSent == {"PR_ROW_TYPE", "PR_INSTANCE_KEY", "PR_INSTANCE_NUM", "PR_INST_ID", "PR_SOURCE_KEY", "PR_PARENT_SOURCE_KEY"}

AnchorIds == {"PR_FID", "PR_MID", "PR_PARENT_FID"}

\* the ids that never follow the header: those never sent, the anchors, and
\* those of the header itself
Barred(header) == NeverSent \cup AnchorIds \cup Ids(header)

\* properties is header followed by tags taken from `from' whose ids are
\* exactly `ids'; nothing never sent, anchors in the header only, no id twice
HeaderThen(properties, header, from, ids) ==
    /\ Len(properties) >= Len(header)
    /\ SubSeq(properties, 1, Len(header)) = header
    /\ SeqRange(SubSeq(properties, Len(header) + 1, Len(properties))) \subseteq from
    /\ Ids(SubSeq(properties, Len(header) + 1, Len(properties))) = ids
    /\ Ids(properties) \cap NeverSent = {}
    /\ \A i \in 1..Len(properties) : properties[i].id \in AnchorIds => i <= Len(header)
    /\ \A i, j \in 1..Len(properties) : properties[i].id = properties[j].id => i = j

\* the set as the claim has it
PropertySetAsClaimed(st, request, properties) ==
    LET header == Anchors(request.SynchronizationType = "Contents")
    IN  IF "OnlySpecifiedProperties" \in request.SynchronizationFlag
        THEN HeaderThen(properties, header, SeqRange(request.PropertyTags), Ids(request.PropertyTags) \ Barred(header))
        ELSE HeaderThen(properties, header, AvailableTags(st, request),
                        (AvailableIds(st, request) \ Ids(request.PropertyTags)) \ Barred(header))

\* the set with the body properties that BestBody brings back
PropertySetWithBestBody(st, request, properties) ==
    LET header == Anchors(request.SynchronizationType = "Contents")
        supplied == IF "BestBody" \in request.SynchronizationFlag
                    THEN Ids(request.PropertyTags) \ {PR_BODY_HTML.id, PR_BODY_UNICODE.id}
                    ELSE Ids(request.PropertyTags)
    IN  IF "OnlySpecifiedProperties" \in request.SynchronizationFlag
        THEN HeaderThen(properties, header, SeqRange(request.PropertyTags), Ids(request.PropertyTags) \ Barred(header))
        ELSE HeaderThen(properties, header, AvailableTags(st, request), (AvailableIds(st, request) \ supplied) \ Barred(header))

\* a SyncConfigure that made a SyncContext
Configured(request) == EcDoRpc_RopSyncConfigure("folder", request) /\ ~aborted' /\ reply'.error_code = "MAPI_E_SUCCESS"

\* C30: the property set recorded by SyncConfigure is the header set of the
\* mode followed by every caller-supplied tag when OnlySpecifiedProperties
\* is set, and otherwise by every store-available tag that the caller did
\* not supply; no tag that is never sent is in it, PR_FID, PR_MID and
\* PR_PARENT_FID are in it as header anchors only, and no id is in it twice
C30_PropertySetOfSyncConfigure ==
    [][\A request \in ConfigureRequests : Configured(request) => PropertySetAsClaimed(store, request, synccontext'.properties)]_vars

\* C30 (amended): as above, but when BestBody is set without
\* OnlySpecifiedProperties, PR_BODY_HTML and PR_BODY_UNICODE follow the
\* header whenever the store has them, supplied by the caller or not
C30_PropertySetWithBestBody ==
    [][\A request \in ConfigureRequests : Configured(request) => PropertySetWithBestBody(store, request, synccontext'.properties)]_vars

\* a contents context with BestBody on the store with its own FAI columns:
\* the body that the caller excluded is in the set, the named property that
\* the caller excluded is not
C30_Witness ==
    /\ store.name = "columns" /\ "synccontext" \in handles
    /\ synccontext.request.contents_mode /\ synccontext.request.best_body /\ synccontext.request.fai
    /\ PR_BODY_HTML \in SeqRange(synccontext.properties)
    /\ PR_BODY_UNICODE \in SeqRange(synccontext.properties)
    /\ NAMED_LID \notin SeqRange(synccontext.properties)

----------------------------------------------------------------------------
\* Source keys

OneToOne(f) == \A a, b \in DOMAIN f : f[a] = f[b] => a = b

\* C21: under a one-to-one registry the id read from the source key of an
\* id is that id; the source key of an id under a known replica is 22 bytes
\* long, the GUID of the replica followed by the six bytes of the id
\* shifted right by 16 bits, the lowest first
C21_SourceKeyRoundTrip ==
    /\ (reply.op = "source_key_from_fmid" /\ reply.error_code = "MAPISTORE_SUCCESS")
          => /\ reply.source_key[1] = 22 /\ Len(reply.source_key) = 8
             /\ reply.source_key[2] = store.replids[reply.fmid.replid]
             /\ \A i \in 3..8 : reply.source_key[i] \in 0..255
             /\ reply.source_key[3] + 256 * reply.source_key[4] + 65536 * reply.source_key[5] = reply.fmid.lo % 16777216
             /\ reply.source_key[6] = reply.fmid.lo \div 16777216
             /\ reply.source_key[7] + 256 * reply.source_key[8] = reply.fmid.hi
    /\ (reply.op = "fmid_from_source_key" /\ OneToOne(store.replids))
          => reply.error_code = "MAPISTORE_SUCCESS" /\ reply.fmidp = reply.fmid

\* an id with a counter above 2^32 has come back from its key
C21_Witness ==
    /\ reply.op = "fmid_from_source_key" /\ OneToOne(store.replids)
    /\ reply.fmid = Fmid(2, 258, 50331655) /\ reply.fmidp = reply.fmid

\* C22: a source key whose length is not 22 gives no id: a
\* SyncImportMessageChange with such a key does not succeed and asks the
\* store for nothing, nor does a SyncImportHierarchyChange with such a key
\* at position 0 or 1, and a SyncImportDeletes of such keys requests no
\* deletion
C22_OnlyKeysOf22BytesResolve ==
    [][/\ \A source_key \in OtherLengthKeys, ImportFlag \in ImportFlags :
             (OnSyncContext /\ ImportedKey(source_key, ImportFlag))
             => reply'.error_code # "MAPI_E_SUCCESS" /\ NothingImported
       /\ \A change \in OtherLengthChanges :
             (OnSyncContext /\ EcDoRpc_RopSyncImportHierarchyChange("synccontext", change[1], change[2]))
             => reply'.error_code # "MAPI_E_SUCCESS" /\ store' = store
       /\ \A Flags \in DeleteFlags, object_array \in OtherLengthArrays :
             (OnSyncContext /\ DeletedArray(Flags, object_array)) => store'.requests = <<>>]_vars

----------------------------------------------------------------------------
\* Replica ids

\* the value of six bytes, the lowest first (the counters of the model stay
\* below 2^31)
LittleEndian(bytes) == bytes[1] + 256 * bytes[2] + 65536 * bytes[3] + 16777216 * bytes[4]

\* the blocks reserved for a session, in the order they were reserved
BlocksOf(s) == SelectSeq(store.reserved, LAMBDA block : block.session = s)

Replied20(s) == sessions[s].pc = "idle" /\ sessions[s].reply.op = "GetLocalReplicaIds" /\ sessions[s].reply.error_code = "MAPI_E_SUCCESS"

----------------------------------------------------------------------------
\* FastTransferSourceCopyTo

CopyToLevels == {0, 1}

CopyToExclusions == {<<>>, <<NAMED_UNKNOWN>>}

\* the FtContext of a CopyTo that excludes PropertyTags: the properties of
\* the folder that are left, and cut-marks that end with the sentinel
CopyToContext(ft, PropertyTags) ==
    /\ ~ft.stream.null /\ ft.stream.position = 0
    /\ ft.stream.data = CopyToStream(store, PropertyTags).ndr
    /\ ft.cutmarks # <<>> /\ ft.cutmarks[Len(ft.cutmarks)] = CUTMARK_END

\* C31: a FastTransferSourceCopyTo that replies Success has created an
\* FtContext that streams the available properties of the object without
\* the excluded tags, with cut-marks that end with the sentinel, and has
\* put its handle in the handle table, also when the object has no
\* available property; one with Level > 0 replies InvalidObject and
\* creates no context
C31_CopyToCreatesFtContext ==
    [][\A Level \in CopyToLevels, PropertyTags \in CopyToExclusions :
          (EcDoRpc_RopFastTransferSourceCopyTo("folder", Level, PropertyTags) /\ ~aborted')
          => /\ (reply'.error_code = "MAPI_E_SUCCESS")
                => ("ftcontext" \in handles' /\ CopyToContext(ftcontext', PropertyTags))
             /\ (Level > 0)
                => (reply'.error_code = "MAPI_E_INVALID_OBJECT" /\ handles' = handles /\ ftcontext' = ftcontext)]_vars

----------------------------------------------------------------------------
\* The rows a contents production emits

\* the change number of a row of a message table
RowCn(row) ==
    ChangeNumber(row.props["PR_MID"][1],
                 IF "PR_LAST_MODIFICATION_TIME" \in DOMAIN row.props THEN row.props["PR_LAST_MODIFICATION_TIME"][1] ELSE oc_version_time)

\* the walked rows whose change number is not in the set `seen'
UnseenRows(st, sc, seen) == SelectSeq(WalkedRows(st, sc), LAMBDA row : ~IDSET_includes_id(seen, st.replica_guid, RowCn(row)))

\* the values that follow the tag `key' in a stream, in the order of the stream
RECURSIVE ValuesAfter(_, _, _)
ValuesAfter(data, key, i) ==
    IF i + 1 > Len(data) THEN <<>>
    ELSE IF data[i].k = key THEN <<data[i + 1].v>> \o ValuesAfter(data, key, i + 2)
    ELSE ValuesAfter(data, key, i + 1)

\* how many tokens of a stream are the marker `key'
Markers(data, key) == Cardinality({ i \in 1..Len(data) : data[i].k = key })

\* C32: the change records of a contents stream are those of the walked
\* rows whose change number is not in the cnset_seen the context held when
\* the production started, in table order; a skipped row leaves nothing
\* in the stream, its id is in idset_given all the same, and the change
\* number of every emitted row is in the cnset_seen serialized in the
\* state block
C32_RowEmittedIffCnUnseen ==
    ContentsBuilt
    => /\ ValuesAfter(synccontext.stream.data, "PR_CHANGE_KEY", 1)
            = [i \in 1..Len(UnseenRows(store, synccontext, walk.before[2])) |->
                 oxcfxics_make_gid(store.replica_guid, RowCn(UnseenRows(store, synccontext, walk.before[2])[i]))]
       /\ ValuesAfter(synccontext.stream.data, "PR_SOURCE_KEY", 1)
            = [i \in 1..Len(UnseenRows(store, synccontext, walk.before[2])) |->
                 oxcfxics_source_key_from_fmid(store, UnseenRows(store, synccontext, walk.before[2])[i].props["PR_MID"][1])]
       /\ Markers(synccontext.stream.data, "PR_INCR_SYNC_CHG") = Len(UnseenRows(store, synccontext, walk.before[2]))
       /\ synccontext.stream.data[1].k \in {"PR_INCR_SYNC_CHG", "PR_INCR_SYNC_STATE_BEGIN"}
       /\ RowGlobs(store, WalkedRows(store, synccontext)) \subseteq synccontext.idset_given.ids
       /\ \A i \in 1..Len(UnseenRows(store, synccontext, walk.before[2])) :
             IDSET_includes_id(synccontext.cnset_seen, store.replica_guid, RowCn(UnseenRows(store, synccontext, walk.before[2])[i]))
       /\ \E i \in 1..Len(synccontext.stream.data) - 1 :
             /\ Words(synccontext.stream.data)[i] = <<"PidTagCnsetSeen">>
             /\ Words(synccontext.stream.data)[i + 1] = <<"idset", IDSET_serialize(synccontext.cnset_seen)>>

\* four messages walked after the upload of a cnset_seen that holds the
\* change numbers of two of them: two records, four ids given
C32_Witness ==
    /\ ContentsBuilt /\ Len(WalkedRows(store, synccontext)) = 4
    /\ ~walk.before[2].null /\ walk.before[2].ids = {<<1, 0, 1>>, <<1, 0, 2>>, <<1, 0, 3>>}
    /\ Len(UnseenRows(store, synccontext, walk.before[2])) = 2
    /\ Markers(synccontext.stream.data, "PR_INCR_SYNC_CHG") = 2
    /\ Cardinality(synccontext.idset_given.ids) >= 4

----------------------------------------------------------------------------
\* Draining a stream

\* requests of at least one byte that drain the stream of a store within
\* MaxCalls calls
DrainRequests(st, h) ==
    IF st.name = "big" \/ (st.name = "chunk" /\ h = "synccontext") THEN { <<BABE, 65535>> }
    ELSE IF h = "synccontext" THEN { <<512, 0>>, <<4096, 0>> }
    ELSE { <<4096, 0>>, <<BABE, 8192>>, <<32768, 0>> }

\* one context is created and then read until the calls run out
DrainNext ==
    \/ handles = {"folder"} /\ EcDoRpc_RopFastTransferSourceCopyTo("folder", 0, <<>>)
    \/ handles = {"folder"} /\ EcDoRpc_RopSyncConfigure("folder", SyncRequest("Contents", {"Unicode"}, {"Unicode", "Normal"}, {}, <<>>))
    \/ \E r \in DrainRequests(store, "ftcontext") : EcDoRpc_RopFastTransferSourceGetBuffer("ftcontext", r[1], r[2])
    \/ \E r \in DrainRequests(store, "synccontext") : EcDoRpc_RopFastTransferSourceGetBuffer("synccontext", r[1], r[2])

\* a GetBuffer on h can be made
Pending(h) == h \in handles /\ ~aborted /\ chunks[h].count < MaxCalls

\* the client of a transfer repeats GetBuffer on its context: weak fairness
\* of the calls on either kind of context, the one of a SyncContext with
\* its enabling condition written out
DrainSpec ==
    /\ InitOn(ChunkStores) /\ [][DrainNext]_vars
    /\ WF_vars(\E r \in DrainRequests(store, "ftcontext") : EcDoRpc_RopFastTransferSourceGetBuffer("ftcontext", r[1], r[2]))
    /\ \/ []<>(~Pending("synccontext"))
       \/ []<>(<<\E r \in DrainRequests(store, "synccontext") : EcDoRpc_RopFastTransferSourceGetBuffer("synccontext", r[1], r[2])>>_vars)

\* the position a GetBuffer on h starts from
Cursor(h) == Ctx(h).stream.position

\* a GetBuffer on h that replies
Drained(h, r) == h \in handles /\ EcDoRpc_RopFastTransferSourceGetBuffer(h, r[1], r[2]) /\ ~aborted'

Transferring(h) == h \in handles /\ h # "folder" /\ ~aborted

\* C33: a GetBuffer of at least one byte never moves the cursor back nor
\* past the end of the stream, moves it by at least one byte while it is
\* before the end, and replies an empty chunk with Done once a reply was
\* Done; a context read again and again gets a Done reply
C33_GetBufferReachesDone ==
    /\ [][\A h \in {"ftcontext", "synccontext"} : \A r \in DrainRequests(store, h) :
             Drained(h, r)
             => /\ reply'.start = (IF chunks[h].count = 0 THEN 0 ELSE Cursor(h))
                /\ reply'.start <= Ctx(h)'.stream.position
                /\ Ctx(h)'.stream.position <= Ctx(h)'.stream.length
                /\ (reply'.start < Ctx(h)'.stream.length => reply'.start < Ctx(h)'.stream.position)
                /\ (chunks[h].done => (reply'.TransferBufferSize = 0 /\ reply'.TransferStatus = "TransferStatus_Done"))]_vars
    /\ \A h \in {"ftcontext", "synccontext"} : Transferring(h) ~> (aborted \/ chunks[h].done)

\* a CopyTo stream of 140000 bytes read in three chunks, the cursor past
\* 65536, and a fourth GetBuffer after the Done reply
C33_Witness ==
    /\ GotBuffer /\ reply.handle = "ftcontext" /\ chunks["ftcontext"].count = 4
    /\ chunks["ftcontext"].ends[1] < chunks["ftcontext"].ends[2] /\ chunks["ftcontext"].ends[2] >= UINT16_MOD
    /\ chunks["ftcontext"].ends[3] = ftcontext.stream.length
    /\ reply.start = ftcontext.stream.length /\ reply.TransferBufferSize = 0 /\ reply.TransferStatus = "TransferStatus_Done"

----------------------------------------------------------------------------
\* SyncGetTransferState and the production that follows it

\* the requests of the sessions that ask for the state
StateRequests ==
    { SyncRequest("Contents", {"Unicode"}, {"Unicode", "Normal"}, {}, <<>>),
      SyncRequest("Hierarchy", {}, {"FAI", "ReadState", "NoForeignIdentifiers"}, {"Eid"}, <<PR_DISPLAY_NAME_UNICODE>>) }

\* a session that configures, uploads a state, asks for the state back and
\* reads its contexts
StateNext ==
    \/ \E request \in StateRequests : EcDoRpc_RopSyncConfigure("folder", request)
    \/ \E StateProperty \in {"PidTagCnsetSeen"} : EcDoRpc_RopSyncUploadStateStreamBegin("synccontext", StateProperty)
    \/ \E StreamData \in {<<1, GLOBSET_RANGE, 0, 1, 0, 3, GLOBSET_END>>} : EcDoRpc_RopSyncUploadStateStreamContinue("synccontext", StreamData)
    \/ EcDoRpc_RopSyncUploadStateStreamEnd("synccontext")
    \/ EcDoRpc_RopSyncGetTransferState("synccontext")
    \/ \E h \in {"synccontext", "ftcontext"}, r \in BufferRequests : EcDoRpc_RopFastTransferSourceGetBuffer(h, r[1], r[2])

StateSpec == InitOn({MailStore, EmptyStore}) /\ [][StateNext]_vars

\* what the first GetBuffer on a context produces
Produced(st, sc) ==
    IF sc.request.contents_mode
    THEN oxcfxics_prepare_synccontext_with_messageChange(st, sc)
    ELSE oxcfxics_prepare_synccontext_with_folderChange(st, sc)

\* the change keys of the records of that production, in stream order
ChangeRecords(st, sc) == ValuesAfter(Produced(st, sc).synccontext.stream.data, "PR_CHANGE_KEY", 1)

\* a stream that is one state block
StateBlockOnly(stream) ==
    /\ ~stream.null /\ stream.position = 0 /\ Len(stream.data) >= 2
    /\ stream.data[1].k = "PR_INCR_SYNC_STATE_BEGIN" /\ stream.data[Len(stream.data)].k = "PR_INCR_SYNC_STATE_END"
    /\ Markers(stream.data, "PR_INCR_SYNC_STATE_BEGIN") = 1 /\ Markers(stream.data, "PR_INCR_SYNC_STATE_END") = 1

\* C34: a SyncGetTransferState that succeeds creates an FtContext whose
\* stream is one state block and whose cut-marks are the sentinel alone,
\* and leaves idset_given, cnset_seen, the stream and the cursor of the
\* SyncContext as they were, so that a first GetBuffer made after it emits
\* the change records it would have emitted without it
C34_TransferStateOnlyObserves ==
    [][(TypeOf("synccontext") = "synccontext" /\ EcDoRpc_RopSyncGetTransferState("synccontext")
        /\ ~aborted' /\ reply'.error_code = "MAPI_E_SUCCESS")
       => /\ "ftcontext" \in handles' /\ ftcontext'.cutmarks = <<CUTMARK_END>> /\ StateBlockOnly(ftcontext'.stream)
          /\ synccontext'.idset_given = synccontext.idset_given /\ synccontext'.cnset_seen = synccontext.cnset_seen
          /\ synccontext'.stream = synccontext.stream
          /\ (synccontext.stream.null => ChangeRecords(store, synccontext') = ChangeRecords(store, synccontext))]_vars

----------------------------------------------------------------------------
\* The width of the cursor

\* the cut-mark loop on values of full width
RECURSIVE WideCutLoop(_, _, _, _)
WideCutLoop(cutmarks, mark_ptr, max_cutmark, cutbuffer_pos) ==
    IF cutmarks[mark_ptr + 1] # CUTMARK_END /\ cutmarks[mark_ptr + 1] < max_cutmark
    THEN WideCutLoop(cutmarks, mark_ptr + 1, max_cutmark, cutmarks[mark_ptr + 1])
    ELSE cutbuffer_pos

\* the size of the chunk that starts at position when nothing is reduced
\* modulo 2^16: up to the last cut-mark inside the window, if there is one
WideChunkSize(cutmarks, position, buffer_size, length) ==
    IF position + buffer_size < length
    THEN LET cutbuffer_pos == WideCutLoop(cutmarks, 0, position + buffer_size, position)
         IN  IF position < cutbuffer_pos /\ cutbuffer_pos - position < buffer_size THEN cutbuffer_pos - position ELSE buffer_size
    ELSE Min(buffer_size, length - position)

\* C35: the chunk of a GetBuffer on an FtContext is the one computed from
\* the full cursor and the full bound cursor + buffer_size, also when one
\* of them is 65536 or more
C35_ChunkEndUsesFullCursor ==
    (GotBuffer /\ reply.handle = "ftcontext" /\ reply.buffer_size >= 1)
    => reply.TransferBufferSize = WideChunkSize(ftcontext.cutmarks, reply.start, reply.buffer_size, reply.length)

----------------------------------------------------------------------------
\* The two branches of GetBuffer

\* an FtContext with the stream, the cut-marks, the cursor and the step
\* counts a SyncContext has when its GetBuffer starts to cut
Twin(before, after, start) ==
    [stream |-> [after.stream EXCEPT !.position = start], cutmarks |-> after.cutmarks,
     next_cutmark_ptr |-> after.next_cutmark_ptr, steps |-> before.steps, total_steps |-> before.total_steps]

\* the reply an FtContext would give to the request
TwinReply(twin, request, h) ==
    GetBufferReply(twin, FtGetBuffer(twin, EffectiveBufferSize(request[1], request[2])), request,
                   EffectiveBufferSize(request[1], request[2]), h)

\* C36: a GetBuffer on a SyncContext replies what a GetBuffer on an
\* FtContext with the same stream, cut-marks, cursor and step counts
\* replies to the same request: the same chunk, TransferStatus,
\* TotalStepCount and InProgressCount
C36_BranchesAgree ==
    [][\A r \in ChunkRequests :
          ("synccontext" \in handles /\ EcDoRpc_RopFastTransferSourceGetBuffer("synccontext", r[1], r[2]) /\ ~aborted')
          => reply' = TwinReply(Twin(synccontext, synccontext', reply'.start), r, "synccontext")]_vars

----------------------------------------------------------------------------
\* The step counts of the replies

\* a reply of a transfer whose requests were all of at least one byte
Positive37 == GotBuffer /\ 0 \notin chunks[reply.handle].sizes

\* C37: in every GetBuffer reply of a transfer whose requested sizes are at
\* least one byte, InProgressCount is at most TotalStepCount and equals it
\* when the reply is Done, and the InProgressCount of a reply is not below
\* the one of the reply before it on the same context
C37_ProgressWithinTotal ==
    /\ [](Positive37 => /\ reply.InProgressCount <= reply.TotalStepCount
                         /\ (reply.TransferStatus = "TransferStatus_Done" => reply.InProgressCount = reply.TotalStepCount))
    /\ [][\A h \in {"ftcontext", "synccontext"}, r \in ChunkRequests :
             (Positive37 /\ reply.handle = h /\ EffectiveBufferSize(r[1], r[2]) > 0
              /\ EcDoRpc_RopFastTransferSourceGetBuffer(h, r[1], r[2]) /\ ~aborted')
             => reply'.InProgressCount >= reply.InProgressCount]_vars

(***************************************************************************)
(* GetBuffer with an effective size of 0.                                  *)
(***************************************************************************)
\* the requests whose effective size is 0
ZeroRequests == { r \in ChunkRequests : EffectiveBufferSize(r[1], r[2]) = 0 }

\* the division of lines 1083 and 1124 is made: the step counts of the
\* context are computed on this call
Divides(h) ==
    IF h = "ftcontext" THEN ftcontext.stream.position = 0 ELSE StreamMissing(synccontext)

\* C38: GetBuffer on a transfer context completes with a reply for every
\* request, an effective size of 0 included (BufferSize 0, or 0xBABE with a
\* MaximumBufferSize of 0): the server goes on, the reply is a GetBuffer
\* reply of Success, the step counts are not computed by a division by
\* zero, and the cursor stays within [0, length of the stream].
C38_GetBufferRepliesForEverySize ==
    [][\A h \in {"ftcontext", "synccontext"} : \A r \in ChunkRequests :
          (h \in handles /\ EcDoRpc_RopFastTransferSourceGetBuffer(h, r[1], r[2]))
          => /\ ~(Divides(h) /\ r \in ZeroRequests)
             /\ ~aborted'
             /\ reply'.op = "GetBuffer"
             /\ reply'.error_code = "MAPI_E_SUCCESS"
             /\ 0 <= Ctx(h)'.stream.position
             /\ Ctx(h)'.stream.position <= Ctx(h)'.stream.length]_vars

\* the same for the requests of a positive size, which never fail
PositiveSizesAlwaysReply ==
    [][\A h \in {"ftcontext", "synccontext"} : \A r \in ChunkRequests \ ZeroRequests :
          (h \in handles /\ EcDoRpc_RopFastTransferSourceGetBuffer(h, r[1], r[2]))
          => /\ ~aborted'
             /\ reply'.op = "GetBuffer"
             /\ reply'.error_code = "MAPI_E_SUCCESS"
             /\ Ctx(h)'.stream.position <= Ctx(h)'.stream.length]_vars

(***************************************************************************)
(* The End of an upload, whatever was uploaded.                            *)
(***************************************************************************)
\* the scratch buffer of the context parses to an idset with no range
ParsesToEmpty(sc) ==
    LET parsed_idset == IDSET_parse(sc.state_stream)
    IN  ~parsed_idset.null /\ parsed_idset.ids = {}

\* C39: SyncUploadStateStreamEnd on an armed context always returns a reply
\* and returns the context to idle, whatever the armed property and the
\* scratch content; an upload of PidTagIdsetGiven whose bytes parse to an
\* idset with no range installs an empty idset_given and replies Success,
\* and the server goes on.
C39_EndAlwaysReplies ==
    [][(Armed /\ EcDoRpc_RopSyncUploadStateStreamEnd("synccontext"))
       => /\ ~aborted'
          /\ reply'.op = "UploadStateStreamEnd"
          /\ synccontext'.state_property = "0"
          /\ synccontext'.state_stream = <<>>
          /\ (synccontext.state_property = "PidTagIdsetGiven" /\ ParsesToEmpty(synccontext))
             => /\ reply'.error_code = "MAPI_E_SUCCESS"
                /\ ~synccontext'.idset_given.null
                /\ synccontext'.idset_given.ids = {}]_vars

\* the same End for every upload but that of an empty PidTagIdsetGiven
EndRepliesButForEmptyGiven ==
    [][(Armed /\ ~(synccontext.state_property = "PidTagIdsetGiven" /\ ParsesToEmpty(synccontext))
        /\ EcDoRpc_RopSyncUploadStateStreamEnd("synccontext"))
       => /\ ~aborted'
          /\ reply' = ErrorReply("UploadStateStreamEnd", "synccontext", "MAPI_E_SUCCESS")
          /\ synccontext'.state_property = "0"
          /\ synccontext'.state_stream = <<>>]_vars

(***************************************************************************)
(* The handle a message import leaves in the caller's array.               *)
(***************************************************************************)
\* handles[handle_idx] after the reply: the handle written by line 1486, or
\* the handle of the request when the handler left before that line
SlotAfter(r) == IF "slot" \in DOMAIN r THEN r.slot ELSE r.handle

\* C40: after every SyncImportMessageChange reply on a SyncContext, the
\* handle id in the caller's handles array at the reply index names a
\* handle that is live in the handle table; when the message can be neither
\* opened nor created (reply NotFound, new handle deleted) the slot does not
\* keep the id of the deleted handle.
C40_SlotNamesLiveHandle ==
    [][\A source_key \in SourceKeys \cup OtherLengthKeys, ImportFlag \in ImportFlags :
          ("synccontext" \in handles
           /\ EcDoRpc_RopSyncImportMessageChange("synccontext", <<SPropValue("PR_SOURCE_KEY", source_key)>>, ImportFlag))
          => /\ reply'.op = "SyncImportMessageChange"
             /\ SlotAfter(reply') \in handles']_vars

\* the same for the imports that do not end on a failed creation
SlotLiveUnlessCreateFailed ==
    [][\A source_key \in SourceKeys \cup OtherLengthKeys, ImportFlag \in ImportFlags :
          ("synccontext" \in handles
           /\ EcDoRpc_RopSyncImportMessageChange("synccontext", <<SPropValue("PR_SOURCE_KEY", source_key)>>, ImportFlag)
           /\ ~("slot" \in DOMAIN reply' /\ reply'.error_code = "MAPI_E_NOT_FOUND"))
          => SlotAfter(reply') \in handles']_vars

====
